---- MODULE Spec2Model ----
(***************************************************************************)
(* Transaction-risk analysis pipeline of crypto-guardian:                  *)
(*   simulateEthCall / getCode      (services/txSimulator.ts)              *)
(*   extractSignals and its parsers (services/txSignals.ts)                *)
(*   assessRisk and its rules       (services/txRiskEngine.ts)             *)
(*   buildCompliantWarning          (services/txSimulator.ts, lower half)  *)
(*   POST /api/tx/simulate          (routes/txSim.ts)                      *)
(*                                                                         *)
(* JavaScript strings are sequences of one-character strings, so that      *)
(* slice, length, toLowerCase and the regular expressions are computed on  *)
(* characters.  A nullable value is <<>> (null / undefined) or <<v>>.      *)
(***************************************************************************)
EXTENDS Integers, Sequences, FiniteSets, TLC

VARIABLES
  pc,             \* position of the request handler / of the function under check
  body,           \* the request body: chainId, data, value, each <<>> or <<string>>
  rpcLog,         \* what the node did on each JSON-RPC call the handler made
  ETH_RPC_URL,    \* process.env.ETH_RPC_URL: <<>> when unset, <<url>> when set
  chainId,        \* request field chainId
  data,           \* request field data (calldata, "0x..." hex string)
  value,          \* request field value: <<>> or <<hex string>>
  ethCallResult,  \* EthCallResult of step 1
  signals,        \* TxSignals of step 2
  toIsEOA,        \* recipient classification of step 3
  results,        \* assessRisk's local list of fired RuleResults
  risk,           \* RiskAssessment of step 4
  riskBefore,     \* <<>>, or <<the assessment an inserted finding was added to>>
  response,       \* what the handler sent
  textIn,         \* the text handed to sanitizeLanguage
  textOut,        \* <<>>, or <<what sanitizeLanguage returned>>
  warningInput,   \* the WarningInput handed to buildCompliantWarning
  warning,        \* <<>>, or <<the CompliantMessage it returned>>
  transaction,    \* what the wallet handed to the snap's onTransaction, if it did
  insight,        \* <<>>, or <<what onTransaction returned>>
  cancelled       \* the client closed the connection while the handler was awaiting

vars == <<pc, body, rpcLog, ETH_RPC_URL, chainId, data, value, ethCallResult, signals,
          toIsEOA, results, risk, riskBefore, response, textIn, textOut, warningInput,
          warning, transaction, insight, cancelled>>

textVars == <<textIn, textOut, warningInput, warning>>

snapVars == <<transaction, insight, cancelled>>

-----------------------------------------------------------------------------
(* Nullable values *)

Null == <<>>
Some(v) == <<v>>
IsNull(o) == o = <<>>
Val(o) == o[1]

\* truthiness of a string | null | undefined
Truthy(o) == ~IsNull(o) /\ Val(o) # <<>>

\* x || dflt for a nullable string: null, undefined and "" are falsy
OrElse(o, dflt) == IF Truthy(o) THEN Val(o) ELSE dflt

S_0x0 == <<"0","x","0">>
S_0x00 == <<"0","x","0","0">>
S_0x == <<"0","x">>

-----------------------------------------------------------------------------
(* Strings *)

UpperLetters ==
  <<"A","B","C","D","E","F","G","H","I","J","K","L","M",
    "N","O","P","Q","R","S","T","U","V","W","X","Y","Z">>
LowerLetters ==
  <<"a","b","c","d","e","f","g","h","i","j","k","l","m",
    "n","o","p","q","r","s","t","u","v","w","x","y","z">>
Digits == <<"0","1","2","3","4","5","6","7","8","9">>

InSeq(c, s) == \E i \in 1..Len(s) : s[i] = c
IndexIn(c, s) == CHOOSE i \in 1..Len(s) : s[i] = c

LowerOf == [c \in {UpperLetters[i] : i \in 1..26} |-> LowerLetters[IndexIn(c, UpperLetters)]]

\* String.prototype.toLowerCase, one character
LowerChar(c) == IF c \in DOMAIN LowerOf THEN LowerOf[c] ELSE c
\* String.prototype.toLowerCase
ToLowerCase(s) == [i \in 1..Len(s) |-> LowerChar(s[i])]

Min(a, b) == IF a < b THEN a ELSE b
Max(a, b) == IF a > b THEN a ELSE b

\* String.prototype.slice(start, end), 0-based, for 0 <= start
Slice(s, start, end) ==
  LET e == Min(end, Len(s))
  IN IF start >= e THEN <<>> ELSE SubSeq(s, start + 1, e)

\* whether lower-case literal lit occurs in s at 1-based position i, ignoring case
MatchAtCI(s, i, lit) ==
  /\ i >= 1
  /\ i + Len(lit) - 1 <= Len(s)
  /\ \A k \in 1..Len(lit) : LowerChar(s[i + k - 1]) = lit[k]

\* /lit/i.test(s)
ContainsCI(s, lit) == \E i \in 1..Len(s) : MatchAtCI(s, i, lit)

\* String.prototype.startsWith
StartsWith(s, lit) ==
  /\ Len(lit) <= Len(s)
  /\ \A k \in 1..Len(lit) : s[k] = lit[k]

-----------------------------------------------------------------------------
(* BigInt: an arbitrary-precision natural number is the sequence of its      *)
(* base-65536 digits, most significant first, without leading zeros (zero is *)
(* the empty sequence).                                                      *)

LimbBase == 65536
HexDigits == <<"0","1","2","3","4","5","6","7","8","9","a","b","c","d","e","f">>

IsHexDigit(c) == InSeq(LowerChar(c), HexDigits)
IsDecDigit(c) == InSeq(c, Digits)
HexVal(c) == IndexIn(LowerChar(c), HexDigits) - 1
DecVal(c) == IndexIn(c, Digits) - 1

RECURSIVE StripZeros(_)
StripZeros(a) == IF a # <<>> /\ Head(a) = 0 THEN StripZeros(Tail(a)) ELSE a

\* a * m + c for small m and c
RECURSIVE MulAddFrom(_, _, _, _)
MulAddFrom(a, i, m, carry) ==
  IF i = 0 THEN (IF carry = 0 THEN <<>> ELSE <<carry>>)
  ELSE LET t == a[i] * m + carry
       IN MulAddFrom(a, i - 1, m, t \div LimbBase) \o <<t % LimbBase>>

MulAdd(a, m, c) == StripZeros(MulAddFrom(a, Len(a), m, c))

\* the value of a string of hex digits: four digits to a base-65536 digit
BigFromHex(h) ==
  LET pad == (4 - (Len(h) % 4)) % 4
      p == [i \in 1..pad |-> "0"] \o h
  IN StripZeros([i \in 1..(Len(p) \div 4) |->
                   4096 * HexVal(p[4 * i - 3]) + 256 * HexVal(p[4 * i - 2])
                     + 16 * HexVal(p[4 * i - 1]) + HexVal(p[4 * i])])

\* the value of at most four decimal digits
SmallDec(s) ==
  IF Len(s) = 0 THEN 0
  ELSE IF Len(s) = 1 THEN DecVal(s[1])
  ELSE IF Len(s) = 2 THEN 10 * DecVal(s[1]) + DecVal(s[2])
  ELSE IF Len(s) = 3 THEN 100 * DecVal(s[1]) + 10 * DecVal(s[2]) + DecVal(s[3])
  ELSE 1000 * DecVal(s[1]) + 100 * DecVal(s[2]) + 10 * DecVal(s[3]) + DecVal(s[4])

\* the value of the first n decimal digits of s, four digits at a time
RECURSIVE BigFromDecimal(_, _)
BigFromDecimal(s, n) ==
  IF n <= 4 THEN MulAdd(<<>>, 1, SmallDec(SubSeq(s, 1, n)))
  ELSE LET front == BigFromDecimal(s, n - 4)
       IN MulAdd(front, 10000, SmallDec(SubSeq(s, n - 3, n)))

\* BigInt(string): <<>> when it throws a SyntaxError, else <<value>>, for
\* strings of hex digits after "0x", strings of decimal digits and ""
BigIntOf(s) ==
  IF Len(s) >= 2 /\ s[1] = "0" /\ LowerChar(s[2]) = "x"
  THEN IF Len(s) > 2 /\ \A i \in 3..Len(s) : IsHexDigit(s[i])
       THEN Some(BigFromHex(SubSeq(s, 3, Len(s))))
       ELSE Null
  ELSE IF \A i \in 1..Len(s) : IsDecDigit(s[i])
       THEN Some(BigFromDecimal(s, Len(s)))
       ELSE Null

\* a compared with b: -1, 0 or 1
RECURSIVE CmpFrom(_, _, _)
CmpFrom(a, b, i) ==
  IF i > Len(a) THEN 0
  ELSE IF a[i] < b[i] THEN -1
  ELSE IF a[i] > b[i] THEN 1
  ELSE CmpFrom(a, b, i + 1)

BigCmp(a, b) ==
  IF Len(a) < Len(b) THEN -1
  ELSE IF Len(a) > Len(b) THEN 1
  ELSE CmpFrom(a, b, 1)

BigGe(a, b) == BigCmp(a, b) >= 0
BigGt(a, b) == BigCmp(a, b) > 0

\* <<quotient digits (not stripped), remainder>> of a divided by 10000
RECURSIVE DivModFrom(_, _, _)
DivModFrom(a, i, rem) ==
  IF i > Len(a) THEN <<<<>>, rem>>
  ELSE LET cur == rem * LimbBase + a[i]
           rest == DivModFrom(a, i + 1, cur % 10000)
       IN <<<<cur \div 10000>> \o rest[1], rest[2]>>

\* the four decimal digits of n < 10000
FourDigits(n) ==
  <<Digits[(n \div 1000) + 1], Digits[((n \div 100) % 10) + 1],
    Digits[((n \div 10) % 10) + 1], Digits[(n % 10) + 1]>>

RECURSIVE StripZeroChars(_)
StripZeroChars(s) == IF Len(s) > 1 /\ Head(s) = "0" THEN StripZeroChars(Tail(s)) ELSE s

\* the decimal digits of a, in groups of four, with leading zeros
RECURSIVE DecimalGroups(_)
DecimalGroups(a) ==
  IF a = <<>> THEN <<>>
  ELSE LET qr == DivModFrom(a, 1, 0)
       IN DecimalGroups(StripZeros(qr[1])) \o FourDigits(qr[2])

\* BigInt.prototype.toString()
BigToString(a) == IF a = <<>> THEN <<"0">> ELSE StripZeroChars(DecimalGroups(a))

\* BigInt(2) ** BigInt(n)
RECURSIVE SmallPow2(_)
SmallPow2(n) == IF n = 0 THEN 1 ELSE 2 * SmallPow2(n - 1)
BigPow2(n) == [i \in 1..((n \div 16) + 1) |-> IF i = 1 THEN SmallPow2(n % 16) ELSE 0]

-----------------------------------------------------------------------------
(* The JSON-RPC transport, txSimulator.ts rpcCall: what one call yields is   *)
(* chosen by the environment.  kind "throw": fetch rejected (transport       *)
(* failure, or the abort of the 2500 ms timer) or resp.json() threw, with    *)
(* the message of the Error; kind "json": the parsed envelope, error being   *)
(* <<>> or <<[message |-> <<>> or <<string>>]>> and result <<>> (absent) or  *)
(* <<string>>.                                                               *)

RPC_TIMEOUT_MS == 2500

Throws(message) == [kind |-> "throw", message |-> message]
Envelope(error, result) == [kind |-> "json", error |-> error, result |-> result]
RpcError(message) == Envelope(Some([message |-> message]), Null)
RpcResult(result) == Envelope(Null, Some(result))

S_eth == <<"e","t","h">>

\* getRpcUrl: <<>> or <<url>>; process.env.ETH_RPC_URL || null
getRpcUrl(cid) ==
  IF cid = S_eth
  THEN (IF Truthy(ETH_RPC_URL) THEN ETH_RPC_URL ELSE Null)
  ELSE Null

\* What getCode returns: null, undefined (an envelope without result and
\* without error) or a string.
CodeNull == [t |-> "null"]
CodeUndefined == [t |-> "undefined"]
CodeString(s) == [t |-> "string", s |-> s]

\* getCode that takes the empty code for a failure
getCodeEmptyIsNull(cid, address, rpc) ==
  IF IsNull(getRpcUrl(cid)) THEN CodeNull
  ELSE IF rpc.kind = "throw" THEN CodeNull
  ELSE IF ~IsNull(rpc.error) THEN CodeNull
  ELSE IF IsNull(rpc.result) THEN CodeUndefined
  ELSE IF Len(Val(rpc.result)) <= 2 THEN CodeNull
  ELSE CodeString(Val(rpc.result))

\* getCode(chainId, address); rpc is what the eth_getCode call yields if made
getCode(cid, address, rpc) ==
  IF IsNull(getRpcUrl(cid)) THEN CodeNull
  ELSE IF rpc.kind = "throw" THEN CodeNull
  ELSE IF ~IsNull(rpc.error) THEN CodeNull
  ELSE IF IsNull(rpc.result) THEN CodeUndefined
  ELSE CodeString(Val(rpc.result))

-----------------------------------------------------------------------------
(* txSimulator.ts: revert decoding and the read-only call *)

\* the printable ASCII characters, codes 32..126 (code 96 under a name, as a
\* string cannot hold it)
AsciiPrintable ==
  <<" ","!","\"","#","$","%","&","'","(",")","*","+",",","-",".","/","0","1","2","3","4","5","6","7","8","9",":",";","<","=",">","?">> \o <<"@">> \o
  <<"A","B","C","D","E","F","G","H","I","J","K","L","M","N","O","P","Q","R","S","T","U","V","W","X","Y","Z","[","\\","]","^","_","<backtick>","a","b","c","d","e","f","g","h","i","j","k","l","m","n","o","p","q","r","s","t","u","v","w","x","y","z","{","|","}","~">>

\* the characters of the bytes 0 .. 31
AsciiControl ==
  <<"<NUL>", "<SOH>", "<STX>", "<ETX>", "<EOT>", "<ENQ>", "<ACK>", "<BEL>",
    "<BS>", "\t", "\n", "<VT>", "<FF>", "<CR>", "<SO>", "<SI>",
    "<DLE>", "<DC1>", "<DC2>", "<DC3>", "<DC4>", "<NAK>", "<SYN>", "<ETB>",
    "<CAN>", "<EM>", "<SUB>", "<ESC>", "<FS>", "<GS>", "<RS>", "<US>">>

\* The character a byte decodes to in utf8.  A byte above 127 is kept as one
\* opaque character; multi-byte sequences are not assembled.
ByteToChar(b) ==
  IF b < 32 THEN AsciiControl[b + 1]
  ELSE IF b <= 126 THEN AsciiPrintable[b - 31]
  ELSE IF b = 127 THEN "<DEL>"
  ELSE "<U+FFFD>"

\* the longest prefix of hex digits of s
RECURSIVE HexPrefixLen(_, _)
HexPrefixLen(s, i) ==
  IF i <= Len(s) /\ IsHexDigit(s[i]) THEN HexPrefixLen(s, i + 1) ELSE i - 1

\* parseInt(s, 16) for s without sign, blanks and 0x prefix: <<>> for NaN,
\* else <<value>>.  The value is kept exact; the double parseInt returns is
\* the same number below 2^53, and rounds to a number that compares alike
\* with 0 and 1024 above.
ParseIntHex(s) ==
  LET n == HexPrefixLen(s, 1)
  IN IF n = 0 THEN Null ELSE Some(BigFromHex(SubSeq(s, 1, n)))

\* Buffer.from(strHex, 'hex'): whole pairs of hex digits, up to the first
\* pair that is not hex
RECURSIVE HexToBytes(_, _)
HexToBytes(h, i) ==
  IF i + 1 <= Len(h) /\ IsHexDigit(h[i]) /\ IsHexDigit(h[i + 1])
  THEN <<16 * HexVal(h[i]) + HexVal(h[i + 1])>> \o HexToBytes(h, i + 2)
  ELSE <<>>

\* Buffer.prototype.toString('utf8')
BytesToString(bytes) == [i \in 1..Len(bytes) |-> ByteToChar(bytes[i])]

Sel_Error == <<"0","x","0","8","c","3","7","9","a","2">>
Sel_Panic == <<"0","x","4","e","4","8","7","b","7","1">>

\* number.toString(16) of a value below 65536
SmallToHex(n) ==
  StripZeroChars(<<HexDigits[(n \div 4096) + 1], HexDigits[((n \div 256) % 16) + 1],
                   HexDigits[((n \div 16) % 16) + 1], HexDigits[(n % 16) + 1]>>)

\* number.toString(16), exact below 2^53
BigToHex(a) ==
  IF a = <<>> THEN <<"0">>
  ELSE StripZeroChars(SmallToHex(a[1]))
         \o [i \in 1..(4 * (Len(a) - 1)) |->
               HexDigits[((a[((i - 1) \div 4) + 2] \div SmallPow2(4 * (3 - ((i - 1) % 4)))) % 16) + 1]]

\* the table panicCodes, and the label of a code it does not hold
PanicText(code) ==
  IF code = <<>> THEN <<"G","e","n","e","r","i","c"," ","c","o","m","p","i","l","e","r"," ","p","a","n","i","c">>
  ELSE IF code = <<1>> THEN <<"A","s","s","e","r","t"," ","f","a","i","l","e","d">>
  ELSE IF code = <<17>> THEN <<"A","r","i","t","h","m","e","t","i","c"," ","o","v","e","r","f","l","o","w","/","u","n","d","e","r","f","l","o","w">>
  ELSE IF code = <<18>> THEN <<"D","i","v","i","s","i","o","n"," ","b","y"," ","z","e","r","o">>
  ELSE IF code = <<33>> THEN <<"I","n","v","a","l","i","d"," ","e","n","u","m"," ","v","a","l","u","e">>
  ELSE IF code = <<34>> THEN <<"S","t","o","r","a","g","e"," ","e","n","c","o","d","i","n","g"," ","e","r","r","o","r">>
  ELSE IF code = <<49>> THEN <<"E","m","p","t","y"," ","a","r","r","a","y"," ","p","o","p">>
  ELSE IF code = <<50>> THEN <<"A","r","r","a","y"," ","o","u","t"," ","o","f"," ","b","o","u","n","d","s">>
  ELSE IF code = <<65>> THEN <<"O","u","t"," ","o","f"," ","m","e","m","o","r","y">>
  ELSE IF code = <<81>> THEN <<"U","n","i","n","i","t","i","a","l","i","z","e","d"," ","f","u","n","c","t","i","o","n"," ","p","o","i","n","t","e","r">>
  ELSE <<"P","a","n","i","c","(","0","x">> \o BigToHex(code) \o <<")">>

\* the Error(string) branch of decodeRevertReason: <<>> when it falls through
DecodeErrorString(hex) ==
  IF StartsWith(hex, Sel_Error) /\ Len(hex) >= 138
  THEN LET strLen == ParseIntHex(Slice(hex, 74, 138))
       IN IF ~IsNull(strLen) /\ Val(strLen) # <<>> /\ BigCmp(Val(strLen), <<1024>>) < 0
          THEN Some(BytesToString(HexToBytes(Slice(hex, 138, 138 + Val(strLen)[1] * 2), 1)))
          ELSE Null
  ELSE Null

\* decodeRevertReason: <<>> (null) or <<string>>
decodeRevertReason(hex) ==
  IF ~IsNull(DecodeErrorString(hex)) THEN DecodeErrorString(hex)
  ELSE IF StartsWith(hex, Sel_Panic) /\ Len(hex) >= 74
  THEN LET code == ParseIntHex(Slice(hex, 10, 74))
       IN IF IsNull(code) THEN Some(<<"P","a","n","i","c","(","0","x","N","a","N",")">>) ELSE Some(PanicText(Val(code)))
  ELSE Null

S_NoRpcConfigured == <<"N","o"," ","R","P","C"," ","c","o","n","f","i","g","u","r","e","d"," ","f","o","r"," ","c","h","a","i","n",":"," ">>
S_none == <<"n","o","n","e">>
S_RpcCallFailed == <<"R","P","C"," ","c","a","l","l"," ","f","a","i","l","e","d">>

Ok(returnData, url) ==
  [success |-> TRUE, returnData |-> returnData, revertReason |-> Null, rpcUrl |-> url]
Failed(returnData, reason, url) ==
  [success |-> FALSE, returnData |-> returnData, revertReason |-> reason, rpcUrl |-> url]

\* a || b for nullable strings
Either(a, b) == IF Truthy(a) THEN a ELSE b

\* simulateEthCall; rpc is what the eth_call yields if it is made.  Whatever
\* is thrown inside the try block is an Error (a TypeError of fetch, the
\* AbortError of the timer, a SyntaxError of resp.json()), so the catch takes
\* its message.
simulateEthCallGenericMessage(cid, rpc) ==
  LET rpcUrl == getRpcUrl(cid)
  IN IF IsNull(rpcUrl)
     THEN Failed(Null, Some(S_NoRpcConfigured \o cid), S_none)
     ELSE IF rpc.kind = "throw"
     THEN Failed(Null, Some(S_RpcCallFailed), Val(rpcUrl))
     ELSE IF ~IsNull(rpc.error)
     THEN Failed(Null, Val(rpc.error).message, Val(rpcUrl))
     ELSE Ok(rpc.result, Val(rpcUrl))

simulateEthCall(cid, rpc) ==
  LET rpcUrl == getRpcUrl(cid)
  IN IF IsNull(rpcUrl)
     THEN Failed(Null, Some(S_NoRpcConfigured \o cid), S_none)
     ELSE IF rpc.kind = "throw"
     THEN Failed(Null, Some(rpc.message), Val(rpcUrl))
     ELSE IF ~IsNull(rpc.error)
     THEN Failed(Null,
                 Either(decodeRevertReason(OrElse(Val(rpc.error).message, <<>>)),
                        Val(rpc.error).message),
                 Val(rpcUrl))
     ELSE IF Truthy(rpc.result) /\ StartsWith(Val(rpc.result), Sel_Error)
     THEN Failed(rpc.result, decodeRevertReason(Val(rpc.result)), Val(rpcUrl))
     ELSE Ok(rpc.result, Val(rpcUrl))

-----------------------------------------------------------------------------
(* txSignals.ts *)

Sel_approve == <<"0","x","0","9","5","e","a","7","b","3">>
Sel_transfer == <<"0","x","a","9","0","5","9","c","b","b">>
Sel_transferFrom == <<"0","x","2","3","b","8","7","2","d","d">>
Sel_permit == <<"0","x","d","5","0","5","a","c","c","f">>
Sel_permitDai == <<"0","x","2","b","6","7","b","5","7","0">>
Sel_multicall == <<"0","x","a","c","9","6","5","0","d","8">>
Sel_multicallV3 == <<"0","x","5","a","e","4","0","1","d","c">>
Sel_multicallUniversal == <<"0","x","1","f","0","4","6","4","d","1">>
Sel_execute == <<"0","x","3","5","9","3","5","6","4","c">>
Sel_permit2Batch == <<"0","x","2","a","2","d","8","0","d","1">>
Sel_permit2Single == <<"0","x","3","0","f","2","8","b","7","a">>
Sel_permit2TransferFrom == <<"0","x","3","6","c","7","8","5","1","6">>
Sel_permit2Allowance == <<"0","x","0","d","5","8","b","1","d","b">>
Sel_permit2Approve == <<"0","x","8","7","5","1","7","c","4","5">>

KNOWN_SELECTORS ==
  <<<<Sel_approve, <<"a","p","p","r","o","v","e","(","a","d","d","r","e","s","s",",","u","i","n","t","2","5","6",")">>>>,
    <<Sel_transfer, <<"t","r","a","n","s","f","e","r","(","a","d","d","r","e","s","s",",","u","i","n","t","2","5","6",")">>>>,
    <<Sel_transferFrom, <<"t","r","a","n","s","f","e","r","F","r","o","m","(","a","d","d","r","e","s","s",",","a","d","d","r","e","s","s",",","u","i","n","t","2","5","6",")">>>>,
    <<Sel_permit, <<"p","e","r","m","i","t","(","a","d","d","r","e","s","s",",","a","d","d","r","e","s","s",",","u","i","n","t","2","5","6",",","u","i","n","t","2","5","6",",","u","i","n","t","8",",","b","y","t","e","s","3","2",",","b","y","t","e","s","3","2",")">>>>,
    <<Sel_permitDai, <<"p","e","r","m","i","t","(","a","d","d","r","e","s","s",",","u","i","n","t","2","5","6",",","u","i","n","t","2","5","6",",","u","i","n","t","8",",","b","y","t","e","s","3","2",",","b","y","t","e","s","3","2",")">>>>,
    <<Sel_multicall, <<"m","u","l","t","i","c","a","l","l","(","b","y","t","e","s","[","]",")">>>>,
    <<Sel_multicallV3, <<"m","u","l","t","i","c","a","l","l","(","u","i","n","t","2","5","6",",","b","y","t","e","s","[","]",")">>>>,
    <<Sel_multicallUniversal, <<"m","u","l","t","i","c","a","l","l","(","b","y","t","e","s","3","2",",","b","y","t","e","s","[","]",")">>>>,
    <<Sel_execute, <<"e","x","e","c","u","t","e","(","b","y","t","e","s",",","b","y","t","e","s","[","]",",","u","i","n","t","2","5","6",")">>>>,
    <<Sel_permit2Batch,
      <<"p","e","r","m","i","t","(","a","d","d","r","e","s","s",",","(","(","a","d","d","r","e","s","s",",","u","i","n","t","1","6","0",",","u","i","n","t","4","8",",","u","i","n","t","4","8",")","[","]",",","a","d","d","r","e","s","s",",","u","i","n","t","2","5","6",")",",","b","y","t","e","s",")">>>>,
    <<Sel_permit2Single, <<"p","e","r","m","i","t","(","(","(","a","d","d","r","e","s","s",",","u","i","n","t","1","6","0",",","u","i","n","t","4","8",",","u","i","n","t","4","8",")",",","a","d","d","r","e","s","s",",","u","i","n","t","2","5","6",")",",","b","y","t","e","s",")">>>>,
    <<Sel_permit2TransferFrom, <<"t","r","a","n","s","f","e","r","F","r","o","m","(","a","d","d","r","e","s","s",",","a","d","d","r","e","s","s",",","u","i","n","t","1","6","0",",","a","d","d","r","e","s","s",")">>>>,
    <<Sel_permit2Allowance, <<"a","l","l","o","w","a","n","c","e","(","a","d","d","r","e","s","s",",","a","d","d","r","e","s","s",",","a","d","d","r","e","s","s",")">>>>,
    <<Sel_permit2Approve, <<"a","p","p","r","o","v","e","(","a","d","d","r","e","s","s",",","(","a","d","d","r","e","s","s",",","u","i","n","t","1","6","0",",","u","i","n","t","4","8",")","[","]",",","u","i","n","t","2","5","6",")">>>>>>

MAX_UINT256 == Val(BigIntOf(<<"0","x">> \o [i \in 1..64 |-> "f"]))
HIGH_APPROVAL_THRESHOLD == BigPow2(255)

\* getSelector: <<>> or <<selector>>
getSelector(d) ==
  IF Len(d) = 0 \/ Len(d) < 10 THEN Null ELSE Some(ToLowerCase(Slice(d, 0, 10)))

\* identifyMethod: <<>> or <<signature>>
identifyMethod(d) ==
  LET selector == getSelector(d)
  IN IF IsNull(selector) THEN Null
     ELSE IF \E i \in 1..Len(KNOWN_SELECTORS) : KNOWN_SELECTORS[i][1] = Val(selector)
          THEN Some(KNOWN_SELECTORS[CHOOSE i \in 1..Len(KNOWN_SELECTORS) :
                                      KNOWN_SELECTORS[i][1] = Val(selector)][2])
          ELSE Null

\* parseApproval asking for 68 bytes after the selector
parseApprovalLonger(d, tokenAddress, fromAddress) ==
  IF getSelector(d) # Some(Sel_approve) THEN Null
  ELSE IF Len(d) < 146 THEN Null
  ELSE Some([token |-> ToLowerCase(tokenAddress),
             owner |-> ToLowerCase(fromAddress),
             spender |-> S_0x \o ToLowerCase(Slice(d, 34, 74)),
             amount |-> BigToString(Val(BigIntOf(S_0x \o Slice(d, 74, 138))))])

\* parseApproval: <<>> or <<ApprovalSignal>>
parseApproval(d, tokenAddress, fromAddress) ==
  IF getSelector(d) # Some(Sel_approve) THEN Null
  ELSE IF Len(d) < 138 THEN Null
  ELSE LET spender == S_0x \o ToLowerCase(Slice(d, 34, 74))
           amountHex == Slice(d, 74, 138)
           amount == Val(BigIntOf(S_0x \o amountHex))
       IN Some([token |-> ToLowerCase(tokenAddress),
                owner |-> ToLowerCase(fromAddress),
                spender |-> spender,
                amount |-> BigToString(amount)])

\* the threshold test alone
isUnlimitedApprovalOnlyMax(amountStr) ==
  LET amount == BigIntOf(amountStr)
  IN IF IsNull(amount) THEN FALSE ELSE Val(amount) = MAX_UINT256

isUnlimitedApproval(amountStr) ==
  LET amount == BigIntOf(amountStr)
  IN IF IsNull(amount) THEN FALSE
     ELSE BigGe(Val(amount), HIGH_APPROVAL_THRESHOLD) \/ Val(amount) = MAX_UINT256

\* parseTransfer reading transferFrom's amount from the second argument
parseTransferSecondWord(d, tokenAddress, fromAddress) ==
  LET selector == getSelector(d)
  IN IF selector = Some(Sel_transfer) /\ Len(d) >= 138
     THEN Some([token |-> ToLowerCase(tokenAddress),
                from |-> ToLowerCase(fromAddress),
                to |-> S_0x \o ToLowerCase(Slice(d, 34, 74)),
                amount |-> BigToString(Val(BigIntOf(S_0x \o Slice(d, 74, 138))))])
     ELSE IF selector = Some(Sel_transferFrom) /\ Len(d) >= 202
     THEN Some([token |-> ToLowerCase(tokenAddress),
                from |-> S_0x \o ToLowerCase(Slice(d, 34, 74)),
                to |-> S_0x \o ToLowerCase(Slice(d, 98, 138)),
                amount |-> BigToString(Val(BigIntOf(S_0x \o Slice(d, 74, 138))))])
     ELSE Null

\* parseTransfer with transfer's length limit for transferFrom as well
parseTransferOneLimit(d, tokenAddress, fromAddress) ==
  LET selector == getSelector(d)
  IN IF selector = Some(Sel_transfer) /\ Len(d) >= 138
     THEN Some([token |-> ToLowerCase(tokenAddress),
                from |-> ToLowerCase(fromAddress),
                to |-> S_0x \o ToLowerCase(Slice(d, 34, 74)),
                amount |-> BigToString(Val(BigIntOf(S_0x \o Slice(d, 74, 138))))])
     ELSE IF selector = Some(Sel_transferFrom) /\ Len(d) >= 138
     THEN Some([token |-> ToLowerCase(tokenAddress),
                from |-> S_0x \o ToLowerCase(Slice(d, 34, 74)),
                to |-> S_0x \o ToLowerCase(Slice(d, 98, 138)),
                amount |-> BigToString(Val(BigIntOf(S_0x \o Slice(d, 74, 138))))])
     ELSE Null

\* parseTransfer: <<>> or <<TransferSignal>>
parseTransfer(d, tokenAddress, fromAddress) ==
  LET selector == getSelector(d)
  IN IF selector = Some(Sel_transfer) /\ Len(d) >= 138
     THEN Some([token |-> ToLowerCase(tokenAddress),
                from |-> ToLowerCase(fromAddress),
                to |-> S_0x \o ToLowerCase(Slice(d, 34, 74)),
                amount |-> BigToString(Val(BigIntOf(S_0x \o Slice(d, 74, 138))))])
     ELSE IF selector = Some(Sel_transferFrom) /\ Len(d) >= 202
     THEN Some([token |-> ToLowerCase(tokenAddress),
                from |-> S_0x \o ToLowerCase(Slice(d, 34, 74)),
                to |-> S_0x \o ToLowerCase(Slice(d, 98, 138)),
                amount |-> BigToString(Val(BigIntOf(S_0x \o Slice(d, 138, 202))))])
     ELSE Null

\* isPermitSelector counting the ERC-20 approve among the permits
isPermitSelectorWithApprove(selector) ==
  IF IsNull(selector) THEN FALSE
  ELSE Val(selector) \in {Sel_approve, Sel_permit, Sel_permitDai, Sel_permit2Batch,
                          Sel_permit2Single, Sel_permit2Approve}

isPermitSelector(selector) ==
  IF IsNull(selector) THEN FALSE
  ELSE Val(selector) \in {Sel_permit, Sel_permitDai, Sel_permit2Batch, Sel_permit2Single,
                          Sel_permit2Approve}

isMulticallSelector(selector) ==
  IF IsNull(selector) THEN FALSE
  ELSE Val(selector) \in {Sel_multicall, Sel_multicallV3, Sel_multicallUniversal, Sel_execute}

\* BigInt(Math.floor(0.25 * 1e18)); the product is exact in a double
ThresholdWei == Val(BigIntOf(<<"2","5","0","0","0","0","0","0","0","0","0","0","0","0","0","0","0","0">>))

\* isHighValueNative(valueHex), thresholdEth at its default 0.25
isHighValueNative(valueHex) ==
  IF ~Truthy(valueHex) \/ Val(valueHex) = S_0x0 \/ Val(valueHex) = S_0x00
       \/ Val(valueHex) = S_0x
  THEN FALSE
  ELSE LET wei == BigIntOf(Val(valueHex))
       IN IF IsNull(wei) THEN FALSE ELSE BigGe(Val(wei), ThresholdWei)

\* the classification of the spender from what getCode returned; reading
\* .length of undefined throws, which the catch turns into null
SpenderIsContractDefaultFalse(code) ==
  IF code.t = "string"
  THEN Some(code.s # S_0x /\ code.s # S_0x0 /\ Len(code.s) > 2)
  ELSE Some(FALSE)

SpenderIsContract(code) ==
  IF code.t = "null" THEN Null
  ELSE IF code.t = "undefined" THEN Null
  ELSE Some(code.s # S_0x /\ code.s # S_0x0 /\ Len(code.s) > 2)

\* extractSignals throws: a BigInt(...) of one of its parsers is handed a
\* string that is no number (nothing else in it can throw outside a try)
extractSignalsThrows(d) ==
  LET selector == getSelector(d)
  IN \/ selector = Some(Sel_approve) /\ Len(d) >= 138
          /\ IsNull(BigIntOf(S_0x \o Slice(d, 74, 138)))
     \/ selector = Some(Sel_transfer) /\ Len(d) >= 138
          /\ IsNull(BigIntOf(S_0x \o Slice(d, 74, 138)))
     \/ selector = Some(Sel_transferFrom) /\ Len(d) >= 202
          /\ IsNull(BigIntOf(S_0x \o Slice(d, 138, 202)))

\* extractSignals; rpc is what the eth_getCode call for the spender yields if
\* it is made
extractSignals(cid, fromAddress, toAddress, d, v, rpc) ==
  LET selector == getSelector(d)
      approval == parseApproval(d, toAddress, fromAddress)
      transfer == parseTransfer(d, toAddress, fromAddress)
  IN [knownMethod |-> identifyMethod(d),
      approvals |-> approval,
      erc20Transfers |-> transfer,
      unlimitedApproval |->
        IF IsNull(approval) THEN FALSE ELSE isUnlimitedApproval(Val(approval).amount),
      spenderIsContract |->
        IF IsNull(approval) THEN Null
        ELSE SpenderIsContract(getCode(cid, Val(approval).spender, rpc)),
      isPermit |-> isPermitSelector(selector),
      isMulticall |-> isMulticallSelector(selector),
      highValueNativeTransfer |-> isHighValueNative(v)]

-----------------------------------------------------------------------------
(* txRiskEngine.ts *)

SAFE == "SAFE"
WARNING == "WARNING"
DANGER == "DANGER"
Verdict == {SAFE, WARNING, DANGER}

S_TransactionReverted == <<"T","r","a","n","s","a","c","t","i","o","n"," ","r","e","v","e","r","t","e","d">>
S_TRANSFER_FROM_FAILED == <<"t","r","a","n","s","f","e","r","_","f","r","o","m","_","f","a","i","l","e","d">>
S_insufficient_allowance == <<"i","n","s","u","f","f","i","c","i","e","n","t"," ","a","l","l","o","w","a","n","c","e">>
S_insufficient_balance == <<"i","n","s","u","f","f","i","c","i","e","n","t"," ","b","a","l","a","n","c","e">>
S_execution_reverted == <<"e","x","e","c","u","t","i","o","n"," ","r","e","v","e","r","t","e","d">>

\* lit occurs in s, case respected
ContainsCS(s, lit) ==
  \E i \in 1..Len(s) :
    /\ i + Len(lit) - 1 <= Len(s)
    /\ \A k \in 1..Len(lit) : s[i + k - 1] = lit[k]

\* ruleRevert's regular expression without its i flag
IsDangerousReasonCaseSensitive(reason) ==
  \/ ContainsCS(reason, <<"T","R","A","N","S","F","E","R","_","F","R","O","M","_","F","A","I","L","E","D">>)
  \/ ContainsCS(reason, S_insufficient_allowance)
  \/ ContainsCS(reason, S_insufficient_balance)
  \/ ContainsCS(reason, S_execution_reverted)

\* the regular expression of ruleRevert, flag i
IsDangerousReason(reason) ==
  \/ ContainsCI(reason, S_TRANSFER_FROM_FAILED)
  \/ ContainsCI(reason, S_insufficient_allowance)
  \/ ContainsCI(reason, S_insufficient_balance)
  \/ ContainsCI(reason, S_execution_reverted)

\* A rule returns <<>> (null) or <<RuleResult>>.  reason stands for the
\* template string of the rule: the rule it belongs to and the values
\* interpolated into it.
RuleResult(v, c, rule, args) ==
  [verdict |-> v, confidence |-> c, reason |-> [rule |-> rule, args |-> args]]

ruleRevert(ecr) ==
  IF ~ecr.success
  THEN LET reason == OrElse(ecr.revertReason, S_TransactionReverted)
           isDangerous == IsDangerousReason(reason)
       IN Some(RuleResult(IF isDangerous THEN DANGER ELSE WARNING,
                          IF isDangerous THEN 85 ELSE 70,
                          "revert", <<reason>>))
  ELSE Null

ruleUnlimitedApproval(sig) ==
  IF sig.unlimitedApproval /\ Len(sig.approvals) > 0
  THEN IF sig.spenderIsContract = Some(TRUE)
       THEN Some(RuleResult(DANGER, 90, "unlimitedApprovalContract",
                            <<sig.approvals[1].spender>>))
       ELSE IF sig.spenderIsContract = Some(FALSE)
       THEN Some(RuleResult(DANGER, 95, "unlimitedApprovalEOA",
                            <<sig.approvals[1].spender>>))
       ELSE Some(RuleResult(DANGER, 85, "unlimitedApprovalUnknown",
                            <<sig.approvals[1].spender>>))
  ELSE Null

ruleLimitedApproval(sig) ==
  IF ~sig.unlimitedApproval /\ Len(sig.approvals) > 0
  THEN Some(RuleResult(WARNING, 50, "limitedApproval",
                       <<sig.approvals[1].amount, sig.approvals[1].spender>>))
  ELSE Null

rulePermit(sig) ==
  IF sig.isPermit THEN Some(RuleResult(WARNING, 75, "permit", <<>>)) ELSE Null

ruleHighValueTransfer(sig) ==
  IF sig.highValueNativeTransfer
  THEN Some(RuleResult(WARNING, 60, "highValueTransfer", <<>>))
  ELSE Null

ruleUnknownMethod(sig, isEOA, d) ==
  IF IsNull(sig.knownMethod) /\ Len(d) > 10 /\ ~isEOA
  THEN Some(RuleResult(WARNING, 40, "unknownMethod", <<Slice(d, 0, 10)>>))
  ELSE Null

ruleDirectEOATransferHighValueOnly(sig, isEOA, v) ==
  IF isEOA /\ sig.highValueNativeTransfer
  THEN Some(RuleResult(WARNING, 30, "directEOATransfer", <<>>))
  ELSE Null

ruleDirectEOATransfer(sig, isEOA, v) ==
  IF isEOA /\ Truthy(v) /\ Val(v) # S_0x0 /\ Val(v) # S_0x00 /\ Val(v) # S_0x
  THEN Some(RuleResult(WARNING, 30, "directEOATransfer", <<>>))
  ELSE Null

ruleMulticall(sig) ==
  IF sig.isMulticall THEN Some(RuleResult(WARNING, 55, "multicall", <<>>)) ELSE Null

\* assessRisk, lines 142-166: every rule is evaluated, in this order, and the
\* non-null results are pushed
CollectResults(ecr, sig, isEOA, d, v) ==
  ruleRevert(ecr) \o ruleUnlimitedApproval(sig) \o ruleLimitedApproval(sig)
    \o rulePermit(sig) \o ruleHighValueTransfer(sig)
    \o ruleUnknownMethod(sig, isEOA, d) \o ruleDirectEOATransfer(sig, isEOA, v)
    \o ruleMulticall(sig)

\* Array.prototype.filter
RECURSIVE Filter(_, _)
Filter(s, v) ==
  IF s = <<>> THEN <<>>
  ELSE (IF Head(s).verdict = v THEN <<Head(s)>> ELSE <<>>) \o Filter(Tail(s), v)

\* Math.max(...list.map(r => r.confidence)), list not empty
RECURSIVE MaxConfidence(_)
MaxConfidence(s) ==
  IF Len(s) = 1 THEN s[1].confidence
  ELSE Max(s[1].confidence, MaxConfidence(Tail(s)))

\* an insertion that puts x before the elements it compares equal to
RECURSIVE InsertSortedTiesFirst(_, _)
InsertSortedTiesFirst(x, sorted) ==
  IF sorted = <<>> THEN <<x>>
  ELSE IF x.confidence - Head(sorted).confidence >= 0
       THEN <<x>> \o sorted
       ELSE <<Head(sorted)>> \o InsertSortedTiesFirst(x, Tail(sorted))

\* insertion of x into a list sorted by (a, b) => b.confidence - a.confidence,
\* after every element that does not compare greater than x (a stable sort)
RECURSIVE InsertSorted(_, _)
InsertSorted(x, sorted) ==
  IF sorted = <<>> THEN <<x>>
  ELSE IF x.confidence - Head(sorted).confidence > 0
       THEN <<x>> \o sorted
       ELSE <<Head(sorted)>> \o InsertSorted(x, Tail(sorted))

\* Array.prototype.sort((a, b) => b.confidence - a.confidence)
RECURSIVE SortDesc(_)
SortDesc(s) ==
  IF s = <<>> THEN <<>>
  ELSE InsertSorted(s[Len(s)], SortDesc(SubSeq(s, 1, Len(s) - 1)))

SafeAssessment ==
  [verdict |-> SAFE, confidence |-> 70,
   summary |-> [rule |-> "none", args |-> <<>>],
   reasons |-> <<[rule |-> "noRevert", args |-> <<>>],
                 [rule |-> "noDangerousApproval", args |-> <<>>],
                 [rule |-> "knownOrBenign", args |-> <<>>]>>]

\* the verdict with the two tests in the other order
PickVerdictWarningFirst(res) ==
  LET hasDanger == \E i \in 1..Len(res) : res[i].verdict = DANGER
      hasWarning == \E i \in 1..Len(res) : res[i].verdict = WARNING
  IN IF hasWarning THEN WARNING ELSE IF hasDanger THEN DANGER ELSE SAFE

\* assessRisk, lines 178-181
PickVerdict(res) ==
  LET hasDanger == \E i \in 1..Len(res) : res[i].verdict = DANGER
      hasWarning == \E i \in 1..Len(res) : res[i].verdict = WARNING
  IN IF hasDanger THEN DANGER ELSE IF hasWarning THEN WARNING ELSE SAFE

\* the confidence of the first relevant result instead of the maximum
PickConfidenceFirst(relevantResults) == relevantResults[1].confidence

\* assessRisk, lines 183-185
PickConfidence(relevantResults) == MaxConfidence(relevantResults)

\* assessRisk, line 188
PickTop(relevantResults) == SortDesc(relevantResults)[1]

\* the reasons of the list after sorting it in place
MapReasonsOfSorted(res) == [i \in 1..Len(res) |-> SortDesc(res)[i].reason]

\* assessRisk, line 194
MapReasons(res) == [i \in 1..Len(res) |-> res[i].reason]

\* assessRisk, lines 168-195
Aggregate(res) ==
  IF Len(res) = 0 THEN SafeAssessment
  ELSE LET verdict == PickVerdict(res)
           relevantResults == Filter(res, verdict)
       IN [verdict |-> verdict,
           confidence |-> PickConfidence(relevantResults),
           summary |-> PickTop(relevantResults).reason,
           reasons |-> MapReasons(res)]

assessRisk(ecr, sig, isEOA, d, v) == Aggregate(CollectResults(ecr, sig, isEOA, d, v))

-----------------------------------------------------------------------------
(* txSimulator.ts, the compliant warning engine: regular expressions *)

WordChars ==
  {UpperLetters[i] : i \in 1..26} \cup {LowerLetters[i] : i \in 1..26}
    \cup {Digits[i] : i \in 1..10} \cup {"_"}

\* \s, of the characters the sample texts use
WhiteSpace == {" ", "\t", "\n"}

\* \b after the first n characters of s
WordBoundary(s, n) ==
  (n >= 1 /\ n <= Len(s) /\ s[n] \in WordChars)
    # (n + 1 >= 1 /\ n + 1 <= Len(s) /\ s[n + 1] \in WordChars)

\* \s+not\b matches after the first n characters of s
FollowedByNot(s, n) ==
  \E k \in 1..(Len(s) - n) :
    /\ \A m \in 1..k : s[n + m] \in WhiteSpace
    /\ MatchAtCI(s, n + k + 1, <<"n","o","t">>)
    /\ WordBoundary(s, n + k + 3)

\* A pattern of FORBIDDEN_REPLACEMENTS: /\b lit opt? \b/gi, with the
\* lookahead (?!\s+not\b) after it if unlessNot.
Pattern(lit, opt, unlessNot) == [lit |-> lit, opt |-> opt, unlessNot |-> unlessNot]

\* the length of the match of pattern p in s that starts at position i; 0 if
\* there is none.  The optional part is tried first.
PatternMatchLen(p, s, i) ==
  IF ~WordBoundary(s, i - 1) \/ ~MatchAtCI(s, i, p.lit) THEN 0
  ELSE LET n == i - 1 + Len(p.lit)
       IN IF /\ p.opt # <<>>
             /\ MatchAtCI(s, n + 1, p.opt)
             /\ WordBoundary(s, n + Len(p.opt))
             /\ (p.unlessNot => ~FollowedByNot(s, n + Len(p.opt)))
          THEN Len(p.lit) + Len(p.opt)
          ELSE IF WordBoundary(s, n) /\ (p.unlessNot => ~FollowedByNot(s, n))
          THEN Len(p.lit)
          ELSE 0

\* the table with the single-word rule for "will" ahead of the idioms
FORBIDDEN_REPLACEMENTS_WillFirst ==
  <<[pattern |-> Pattern(<<"w","i","l","l">>, <<>>, TRUE), replacement |-> <<"m","a","y">>],
    [pattern |-> Pattern(<<"f","u","n","d","s"," ","w","i","l","l"," ","b","e"," ","s","t","o","l","e","n">>, <<>>, FALSE),
     replacement |-> <<"f","u","n","d","s"," ","c","o","u","l","d"," ","b","e"," ","m","o","v","e","d">>],
    [pattern |-> Pattern(<<"y","o","u"," ","w","i","l","l"," ","l","o","s","e">>, <<>>, FALSE), replacement |-> <<"y","o","u"," ","c","o","u","l","d"," ","l","o","s","e">>],
    [pattern |-> Pattern(<<"g","u","a","r","a","n","t","e","e">>, <<"d">>, FALSE), replacement |-> <<"l","i","k","e","l","y">>],
    [pattern |-> Pattern(<<"d","e","f","i","n","i","t","e","l","y">>, <<>>, FALSE), replacement |-> <<"m","a","y">>],
    [pattern |-> Pattern(<<"s","c","a","m">>, <<>>, FALSE), replacement |-> <<"h","i","g","h","-","r","i","s","k">>],
    [pattern |-> Pattern(<<"m","a","l","i","c","i","o","u","s">>, <<>>, FALSE), replacement |-> <<"p","o","t","e","n","t","i","a","l","l","y"," ","h","a","r","m","f","u","l">>],
    [pattern |-> Pattern(<<"d","r","a","i","n">>, <<>>, FALSE), replacement |-> <<"m","o","v","e">>]>>

FORBIDDEN_REPLACEMENTS ==
  <<[pattern |-> Pattern(<<"f","u","n","d","s"," ","w","i","l","l"," ","b","e"," ","s","t","o","l","e","n">>, <<>>, FALSE),
     replacement |-> <<"f","u","n","d","s"," ","c","o","u","l","d"," ","b","e"," ","m","o","v","e","d">>],
    [pattern |-> Pattern(<<"y","o","u"," ","w","i","l","l"," ","l","o","s","e">>, <<>>, FALSE), replacement |-> <<"y","o","u"," ","c","o","u","l","d"," ","l","o","s","e">>],
    [pattern |-> Pattern(<<"w","i","l","l">>, <<>>, TRUE), replacement |-> <<"m","a","y">>],
    [pattern |-> Pattern(<<"g","u","a","r","a","n","t","e","e">>, <<"d">>, FALSE), replacement |-> <<"l","i","k","e","l","y">>],
    [pattern |-> Pattern(<<"d","e","f","i","n","i","t","e","l","y">>, <<>>, FALSE), replacement |-> <<"m","a","y">>],
    [pattern |-> Pattern(<<"s","c","a","m">>, <<>>, FALSE), replacement |-> <<"h","i","g","h","-","r","i","s","k">>],
    [pattern |-> Pattern(<<"m","a","l","i","c","i","o","u","s">>, <<>>, FALSE), replacement |-> <<"p","o","t","e","n","t","i","a","l","l","y"," ","h","a","r","m","f","u","l">>],
    [pattern |-> Pattern(<<"d","r","a","i","n">>, <<>>, FALSE), replacement |-> <<"m","o","v","e">>]>>

\* replace with a pattern that has no g flag: the first match only
ReplaceFromFirstOnly(r, s, from) ==
  LET starts == {i \in from..Len(s) : PatternMatchLen(r.pattern, s, i) > 0}
  IN IF starts = {} THEN SubSeq(s, from, Len(s))
     ELSE LET i == CHOOSE x \in starts : \A y \in starts : x <= y
          IN SubSeq(s, from, i - 1) \o r.replacement
               \o SubSeq(s, i + PatternMatchLen(r.pattern, s, i), Len(s))

\* String.prototype.replace(pattern, replacement) with a global pattern, on
\* the part of s from position from on: the matches are found left to right
\* in s, none starting inside an earlier one
RECURSIVE ReplaceFrom(_, _, _)
ReplaceFrom(r, s, from) ==
  LET starts == {i \in from..Len(s) : PatternMatchLen(r.pattern, s, i) > 0}
  IN IF starts = {} THEN SubSeq(s, from, Len(s))
     ELSE LET i == CHOOSE x \in starts : \A y \in starts : x <= y
          IN SubSeq(s, from, i - 1) \o r.replacement
               \o ReplaceFrom(r, s, i + PatternMatchLen(r.pattern, s, i))

RECURSIVE SanitizeFrom(_, _)
SanitizeFrom(result, k) ==
  IF k > Len(FORBIDDEN_REPLACEMENTS) THEN result
  ELSE SanitizeFrom(ReplaceFrom(FORBIDDEN_REPLACEMENTS[k], result, 1), k + 1)

sanitizeLanguage(text) == SanitizeFrom(text, 1)

\* /\b lit \b/i matches in s at position i
WordAt(s, i, lit) ==
  WordBoundary(s, i - 1) /\ MatchAtCI(s, i, lit) /\ WordBoundary(s, i - 1 + Len(lit))

\* /\bwill\s+(?!not\b)/i matches in s at position i: \s+ may take any
\* non-empty part of the white space that follows
WillNotNotAt(s, i) ==
  /\ WordBoundary(s, i - 1)
  /\ MatchAtCI(s, i, <<"w","i","l","l">>)
  /\ \E k \in 1..(Len(s) - (i + 3)) :
       /\ \A m \in 1..k : s[i + 3 + m] \in WhiteSpace
       /\ ~(MatchAtCI(s, i + 3 + k + 1, <<"n","o","t">>) /\ WordBoundary(s, i + 3 + k + 3))

ForbiddenWords ==
  {<<"d","e","f","i","n","i","t","e","l","y">>, <<"s","c","a","m">>, <<"m","a","l","i","c","i","o","u","s">>, <<"y","o","u"," ","w","i","l","l"," ","l","o","s","e">>, <<"f","u","n","d","s"," ","w","i","l","l"," ","b","e"," ","s","t","o","l","e","n">>}

containsForbiddenLanguage(text) ==
  \E i \in 1..Len(text) :
    \/ WillNotNotAt(text, i)
    \/ WordBoundary(text, i - 1) /\ MatchAtCI(text, i, <<"g","u","a","r","a","n","t","e","e">>)
    \/ \E w \in ForbiddenWords : WordAt(text, i, w)

-----------------------------------------------------------------------------
(* txSimulator.ts, the compliant warning engine: templates and builder *)

INFO == "INFO"
LOW == "LOW"
MEDIUM == "MEDIUM"
HIGH == "HIGH"

KNOWN_BAD_ADDRESS == "KNOWN_BAD_ADDRESS"
KNOWN_BAD_CONTRACT == "KNOWN_BAD_CONTRACT"

S_unknown == <<"u","n","k","n","o","w","n">>

Message(severity, title, summary, details, recommendation, confidence) ==
  [severity |-> severity, title |-> title, summary |-> summary, details |-> details,
   recommendation |-> recommendation, confidence |-> confidence]

mapVerdictToSeverity(verdict, confidence) ==
  IF verdict = SAFE THEN INFO
  ELSE IF verdict = WARNING THEN (IF confidence >= 60 THEN MEDIUM ELSE LOW)
  ELSE HIGH

\* input.signals.approvals[0]?.spender ?? 'unknown'
FirstSpender(input) ==
  IF input.signals.approvals = <<>> THEN S_unknown ELSE input.signals.approvals[1].spender
FirstAmount(input) ==
  IF input.signals.approvals = <<>> THEN S_unknown ELSE input.signals.approvals[1].amount

buildUnlimitedApprovalMessage(input) ==
  LET details ==
        <<<<"U","n","l","i","m","i","t","e","d"," ","a","p","p","r","o","v","a","l","s"," ","c","a","n"," ","b","e"," ","c","o","n","v","e","n","i","e","n","t",","," ","b","u","t"," ","t","h","e","y"," ","c","o","u","l","d"," ","i","n","c","r","e","a","s","e"," ","r","i","s","k"," ","i","f"," ","a"," ","c","o","n","t","r","a","c","t"," ","i","s"," ","c","o","m","p","r","o","m","i","s","e","d",".">>>>
        \o (IF input.signals.spenderIsContract = Some(TRUE)
            THEN <<<<"T","h","e"," ","s","p","e","n","d","e","r"," ","a","p","p","e","a","r","s"," ","t","o"," ","b","e"," ","a"," ","s","m","a","r","t"," ","c","o","n","t","r","a","c","t",".">>>>
            ELSE IF input.signals.spenderIsContract = Some(FALSE)
            THEN <<<<"T","h","e"," ","s","p","e","n","d","e","r"," ","a","p","p","e","a","r","s"," ","t","o"," ","b","e"," ","a","n"," ","e","x","t","e","r","n","a","l","l","y"," ","o","w","n","e","d"," ","a","c","c","o","u","n","t"," ","(","n","o","t"," ","a"," ","c","o","n","t","r","a","c","t",")",","," ","w","h","i","c","h"," ","i","s"," ","u","n","c","o","m","m","o","n"," ","f","o","r"," ","l","e","g","i","t","i","m","a","t","e"," ","a","p","p","r","o","v","a","l","s",".">>>>
            ELSE <<>>)
        \o <<<<"S","p","e","n","d","e","r"," ","a","d","d","r","e","s","s",":"," ">> \o FirstSpender(input)>>
  IN Message(HIGH,
             <<"U","n","l","i","m","i","t","e","d"," ","a","p","p","r","o","v","a","l"," ","r","e","q","u","e","s","t">>,
             <<"T","h","i","s"," ","t","r","a","n","s","a","c","t","i","o","n"," ","r","e","q","u","e","s","t","s"," ","p","e","r","m","i","s","s","i","o","n"," ","t","h","a","t"," ","m","a","y"," ","a","l","l","o","w"," ","t","o","k","e","n"," ","m","o","v","e","m","e","n","t"," ","b","e","y","o","n","d"," ","w","h","a","t"," ","i","s"," ","r","e","q","u","i","r","e","d",".">>,
             Slice(details, 0, 4),
             <<"P","r","o","c","e","e","d"," ","o","n","l","y"," ","i","f"," ","y","o","u"," ","t","r","u","s","t"," ","t","h","i","s"," ","a","p","p"," ","a","n","d"," ","u","n","d","e","r","s","t","a","n","d"," ","w","h","y"," ","u","n","l","i","m","i","t","e","d"," ","a","p","p","r","o","v","a","l"," ","i","s"," ","n","e","e","d","e","d",".">>,
             input.confidence)

buildLimitedApprovalMessage(input) ==
  Message(mapVerdictToSeverity(input.verdict, input.confidence),
          <<"T","o","k","e","n"," ","a","p","p","r","o","v","a","l"," ","r","e","q","u","e","s","t">>,
          <<"T","h","i","s"," ","t","r","a","n","s","a","c","t","i","o","n"," ","r","e","q","u","e","s","t","s"," ","p","e","r","m","i","s","s","i","o","n"," ","t","o"," ","a","l","l","o","w"," ","a"," ","s","p","e","c","i","f","i","e","d"," ","a","m","o","u","n","t"," ","o","f"," ","t","o","k","e","n","s"," ","t","o"," ","b","e"," ","m","o","v","e","d"," ","b","y"," ","a","n","o","t","h","e","r"," ","a","d","d","r","e","s","s",".">>,
          <<<<"A","m","o","u","n","t",":"," ">> \o FirstAmount(input) \o <<" ","t","o","k","e","n","s">>,
            <<"S","p","e","n","d","e","r",":"," ">> \o FirstSpender(input),
            <<"L","i","m","i","t","e","d"," ","a","p","p","r","o","v","a","l","s"," ","a","r","e"," ","g","e","n","e","r","a","l","l","y"," ","s","a","f","e","r"," ","t","h","a","n"," ","u","n","l","i","m","i","t","e","d"," ","o","n","e","s",","," ","b","u","t"," ","y","o","u"," ","s","h","o","u","l","d"," ","s","t","i","l","l"," ","v","e","r","i","f","y"," ","t","h","e"," ","s","p","e","n","d","e","r",".">>>>,
          <<"V","e","r","i","f","y"," ","y","o","u"," ","t","r","u","s","t"," ","t","h","e"," ","r","e","c","e","i","v","i","n","g"," ","c","o","n","t","r","a","c","t"," ","b","e","f","o","r","e"," ","a","p","p","r","o","v","i","n","g",".">>,
          input.confidence)

buildPermitMessage(input) ==
  Message(IF input.confidence >= 70 THEN HIGH ELSE MEDIUM,
          <<"S","i","g","n","a","t","u","r","e","-","b","a","s","e","d"," ","a","p","p","r","o","v","a","l">>,
          <<"T","h","i","s"," ","t","r","a","n","s","a","c","t","i","o","n"," ","i","n","c","l","u","d","e","s"," ","a"," ","s","i","g","n","a","t","u","r","e"," ","a","p","p","r","o","v","a","l"," ","t","h","a","t"," ","c","o","u","l","d"," ","g","r","a","n","t"," ","t","o","k","e","n"," ","a","c","c","e","s","s"," ","w","i","t","h","o","u","t"," ","a","n"," ","o","n","-","c","h","a","i","n"," ","a","p","p","r","o","v","a","l"," ","s","t","e","p",".">>,
          <<<<"P","e","r","m","i","t"," ","s","i","g","n","a","t","u","r","e","s"," ","a","l","l","o","w"," ","a"," ","t","h","i","r","d"," ","p","a","r","t","y"," ","t","o"," ","m","o","v","e"," ","t","o","k","e","n","s"," ","u","s","i","n","g"," ","y","o","u","r"," ","s","i","g","n","a","t","u","r","e",".">>,
            <<"T","h","i","s"," ","i","s"," ","a"," ","c","o","m","m","o","n"," ","p","a","t","t","e","r","n"," ","i","n"," ","D","e","F","i",","," ","b","u","t"," ","i","t"," ","c","a","n"," ","b","e"," ","m","i","s","u","s","e","d"," ","i","f"," ","t","h","e"," ","s","i","g","n","a","t","u","r","e"," ","i","s"," ","o","b","t","a","i","n","e","d"," ","d","e","c","e","p","t","i","v","e","l","y",".">>,
            <<"N","o"," ","o","n","-","c","h","a","i","n"," ","t","r","a","n","s","a","c","t","i","o","n"," ","i","s"," ","n","e","e","d","e","d"," ","t","o"," ","e","x","e","c","u","t","e"," ","t","h","i","s"," ","a","p","p","r","o","v","a","l"," ","o","n","c","e"," ","s","i","g","n","e","d",".">>>>,
          <<"O","n","l","y"," ","p","r","o","c","e","e","d"," ","i","f"," ","y","o","u"," ","i","n","i","t","i","a","t","e","d"," ","t","h","i","s"," ","a","c","t","i","o","n"," ","f","r","o","m"," ","a"," ","t","r","u","s","t","e","d"," ","a","p","p",".">>,
          input.confidence)

buildHighValueTransferMessage(input) ==
  Message(MEDIUM,
          <<"L","a","r","g","e"," ","t","r","a","n","s","f","e","r"," ","d","e","t","e","c","t","e","d">>,
          <<"T","h","i","s"," ","t","r","a","n","s","a","c","t","i","o","n"," ","c","o","u","l","d"," ","t","r","a","n","s","f","e","r"," ","a"," ","s","i","g","n","i","f","i","c","a","n","t"," ","a","m","o","u","n","t"," ","o","f"," ","t","h","e"," ","n","e","t","w","o","r","k","'","s"," ","n","a","t","i","v","e"," ","a","s","s","e","t",".">>,
          <<<<"L","a","r","g","e"," ","t","r","a","n","s","f","e","r","s"," ","c","a","r","r","y"," ","h","i","g","h","e","r"," ","c","o","n","s","e","q","u","e","n","c","e","s"," ","i","f"," ","s","e","n","t"," ","t","o"," ","a","n"," ","i","n","c","o","r","r","e","c","t"," ","a","d","d","r","e","s","s",".">>,
            <<"N","a","t","i","v","e"," ","a","s","s","e","t"," ","t","r","a","n","s","f","e","r","s"," ","a","r","e"," ","i","r","r","e","v","e","r","s","i","b","l","e"," ","o","n","c","e"," ","c","o","n","f","i","r","m","e","d",".">>>>,
          <<"C","o","n","f","i","r","m"," ","t","h","e"," ","d","e","s","t","i","n","a","t","i","o","n"," ","a","d","d","r","e","s","s"," ","a","n","d"," ","a","m","o","u","n","t"," ","b","e","f","o","r","e"," ","p","r","o","c","e","e","d","i","n","g",".">>,
          input.confidence)

buildUnknownMethodMessage(input) ==
  Message(IF input.confidence >= 50 THEN MEDIUM ELSE LOW,
          <<"U","n","r","e","c","o","g","n","i","z","e","d"," ","c","o","n","t","r","a","c","t"," ","c","a","l","l">>,
          <<"T","h","i","s"," ","t","r","a","n","s","a","c","t","i","o","n"," ","c","a","l","l","s"," ","a"," ","c","o","n","t","r","a","c","t"," ","m","e","t","h","o","d"," ","t","h","a","t"," ","c","o","u","l","d"," ","n","o","t"," ","b","e"," ","i","d","e","n","t","i","f","i","e","d",".">>,
          <<<<"T","h","e"," ","f","u","n","c","t","i","o","n"," ","b","e","i","n","g"," ","c","a","l","l","e","d"," ","d","o","e","s"," ","n","o","t"," ","m","a","t","c","h"," ","a","n","y"," ","c","o","m","m","o","n","l","y"," ","k","n","o","w","n"," ","m","e","t","h","o","d"," ","s","i","g","n","a","t","u","r","e","s",".">>,
            <<"T","h","i","s"," ","c","o","u","l","d"," ","b","e"," ","a"," ","c","u","s","t","o","m"," ","o","r"," ","l","e","s","s"," ","c","o","m","m","o","n"," ","c","o","n","t","r","a","c","t"," ","i","n","t","e","r","a","c","t","i","o","n",".">>>>,
          <<"I","f"," ","y","o","u"," ","d","o"," ","n","o","t"," ","r","e","c","o","g","n","i","z","e"," ","t","h","i","s"," ","a","c","t","i","o","n",","," ","c","o","n","s","i","d","e","r"," ","r","e","v","i","e","w","i","n","g"," ","d","e","t","a","i","l","s"," ","i","n"," ","t","h","e"," ","p","o","r","t","a","l"," ","b","e","f","o","r","e"," ","p","r","o","c","e","e","d","i","n","g",".">>,
          input.confidence)

buildRevertMessage(input) ==
  LET details ==
        <<<<"T","h","e"," ","s","i","m","u","l","a","t","i","o","n"," ","i","n","d","i","c","a","t","e","s"," ","t","h","i","s"," ","t","r","a","n","s","a","c","t","i","o","n"," ","m","a","y"," ","n","o","t"," ","s","u","c","c","e","e","d",".">>>>
        \o (IF Truthy(input.signals.revertReason)
            THEN <<<<"R","e","a","s","o","n",":"," ">> \o sanitizeLanguage(Val(input.signals.revertReason))>>
            ELSE <<>>)
        \o <<<<"I","f"," ","y","o","u"," ","p","r","o","c","e","e","d",","," ","t","h","e"," ","t","r","a","n","s","a","c","t","i","o","n"," ","m","a","y"," ","f","a","i","l"," ","a","n","d"," ","c","o","u","l","d"," ","s","t","i","l","l"," ","c","o","s","t"," ","g","a","s"," ","f","e","e","s",".">>>>
  IN Message(IF input.confidence >= 80 THEN LOW ELSE INFO,
             <<"T","r","a","n","s","a","c","t","i","o","n"," ","m","a","y"," ","n","o","t"," ","s","u","c","c","e","e","d">>,
             <<"S","i","m","u","l","a","t","i","o","n"," ","i","n","d","i","c","a","t","e","s"," ","t","h","i","s"," ","t","r","a","n","s","a","c","t","i","o","n"," ","m","a","y"," ","f","a","i","l"," ","o","r"," ","r","e","v","e","r","t",".">>,
             Slice(details, 0, 4),
             <<"I","f"," ","y","o","u"," ","p","r","o","c","e","e","d",","," ","b","e"," ","a","w","a","r","e"," ","i","t"," ","m","a","y"," ","f","a","i","l"," ","a","n","d"," ","s","t","i","l","l"," ","c","o","s","t"," ","g","a","s",".">>,
             input.confidence)

buildMulticallMessage(input) ==
  Message(MEDIUM,
          <<"B","a","t","c","h","e","d"," ","t","r","a","n","s","a","c","t","i","o","n"," ","d","e","t","e","c","t","e","d">>,
          <<"T","h","i","s"," ","t","r","a","n","s","a","c","t","i","o","n"," ","b","u","n","d","l","e","s"," ","m","u","l","t","i","p","l","e"," ","o","p","e","r","a","t","i","o","n","s"," ","t","o","g","e","t","h","e","r",","," ","w","h","i","c","h"," ","c","a","n"," ","m","a","k","e"," ","i","t"," ","h","a","r","d","e","r"," ","t","o"," ","v","e","r","i","f","y"," ","e","a","c","h"," ","a","c","t","i","o","n"," ","i","n","d","i","v","i","d","u","a","l","l","y",".">>,
          <<<<"M","u","l","t","i","c","a","l","l"," ","t","r","a","n","s","a","c","t","i","o","n","s"," ","e","x","e","c","u","t","e"," ","s","e","v","e","r","a","l"," ","s","t","e","p","s"," ","i","n"," ","a"," ","s","i","n","g","l","e"," ","t","r","a","n","s","a","c","t","i","o","n",".">>,
            <<"T","h","i","s"," ","i","s"," ","a"," ","c","o","m","m","o","n"," ","p","a","t","t","e","r","n"," ","i","n"," ","D","e","F","i"," ","r","o","u","t","e","r","s",","," ","b","u","t"," ","i","n","c","r","e","a","s","e","s"," ","c","o","m","p","l","e","x","i","t","y",".">>,
            <<"E","a","c","h"," ","b","u","n","d","l","e","d"," ","o","p","e","r","a","t","i","o","n"," ","m","a","y"," ","h","a","v","e"," ","d","i","f","f","e","r","e","n","t"," ","r","i","s","k"," ","c","h","a","r","a","c","t","e","r","i","s","t","i","c","s",".">>>>,
          <<"V","e","r","i","f","y"," ","y","o","u"," ","u","n","d","e","r","s","t","a","n","d"," ","a","l","l"," ","t","h","e"," ","o","p","e","r","a","t","i","o","n","s"," ","t","h","i","s"," ","t","r","a","n","s","a","c","t","i","o","n"," ","p","e","r","f","o","r","m","s"," ","b","e","f","o","r","e"," ","p","r","o","c","e","e","d","i","n","g",".">>,
          input.confidence)

buildEoaTransferMessage(input) ==
  Message(LOW,
          <<"D","i","r","e","c","t"," ","t","r","a","n","s","f","e","r"," ","d","e","t","e","c","t","e","d">>,
          <<"T","h","i","s"," ","t","r","a","n","s","a","c","t","i","o","n"," ","s","e","n","d","s"," ","t","h","e"," ","n","e","t","w","o","r","k","'","s"," ","n","a","t","i","v","e"," ","a","s","s","e","t"," ","d","i","r","e","c","t","l","y"," ","t","o"," ","a","n","o","t","h","e","r"," ","a","d","d","r","e","s","s",".">>,
          <<<<"T","h","i","s"," ","i","s"," ","a"," ","s","t","a","n","d","a","r","d"," ","t","r","a","n","s","f","e","r"," ","t","o"," ","a","n"," ","e","x","t","e","r","n","a","l","l","y"," ","o","w","n","e","d"," ","a","c","c","o","u","n","t",".">>,
            <<"O","n","c","e"," ","c","o","n","f","i","r","m","e","d",","," ","t","h","i","s"," ","t","r","a","n","s","f","e","r"," ","i","s"," ","i","r","r","e","v","e","r","s","i","b","l","e",".">>>>,
          <<"D","o","u","b","l","e","-","c","h","e","c","k"," ","t","h","e"," ","r","e","c","i","p","i","e","n","t"," ","a","d","d","r","e","s","s"," ","b","e","f","o","r","e"," ","c","o","n","f","i","r","m","i","n","g",".">>,
          input.confidence)

\* sources.slice(0, 2).join(', ')
JoinFirstTwo(sources) ==
  IF Len(sources) = 1 THEN sources[1] ELSE sources[1] \o <<","," ">> \o sources[2]

buildKnownBadAddressMessage(input) ==
  LET sources == IF IsNull(input.evidence) THEN <<>> ELSE Val(input.evidence).sources
      details ==
        <<<<"T","h","i","s"," ","a","d","d","r","e","s","s"," ","h","a","s"," ","b","e","e","n"," ","f","l","a","g","g","e","d"," ","b","y"," ","o","n","e"," ","o","r"," ","m","o","r","e"," ","s","e","c","u","r","i","t","y"," ","s","o","u","r","c","e","s",".">>>>
        \o (IF Len(sources) > 0
            THEN <<<<"R","e","p","o","r","t","e","d"," ","b","y",":"," ">> \o JoinFirstTwo(sources)>>
            ELSE <<>>)
        \o <<<<"A","d","d","r","e","s","s","e","s"," ","o","n"," ","s","e","c","u","r","i","t","y"," ","l","i","s","t","s"," ","a","r","e"," ","c","o","m","m","o","n","l","y"," ","a","s","s","o","c","i","a","t","e","d"," ","w","i","t","h"," ","r","e","p","o","r","t","e","d"," ","i","n","c","i","d","e","n","t","s",".">>>>
  IN Message(HIGH,
             <<"H","i","g","h","-","r","i","s","k"," ","a","d","d","r","e","s","s"," ","f","l","a","g","g","e","d">>,
             <<"T","h","i","s"," ","a","d","d","r","e","s","s"," ","i","s"," ","f","l","a","g","g","e","d"," ","b","y"," ","o","n","e"," ","o","r"," ","m","o","r","e"," ","s","e","c","u","r","i","t","y"," ","s","o","u","r","c","e","s"," ","a","s"," ","b","e","i","n","g"," ","a","s","s","o","c","i","a","t","e","d"," ","w","i","t","h"," ","r","e","p","o","r","t","e","d"," ","i","n","c","i","d","e","n","t","s",".">>,
             Slice(details, 0, 4),
             <<"C","o","n","s","i","d","e","r"," ","a","v","o","i","d","i","n","g"," ","t","h","i","s"," ","t","r","a","n","s","a","c","t","i","o","n"," ","u","n","l","e","s","s"," ","y","o","u"," ","c","a","n"," ","v","e","r","i","f","y"," ","t","h","e"," ","l","e","g","i","t","i","m","a","c","y"," ","i","n","d","e","p","e","n","d","e","n","t","l","y",".">>,
             input.confidence)

buildSafeMessage(input) ==
  LET method == input.signals.knownMethod
      details ==
        <<<<"N","o"," ","r","e","v","e","r","t"," ","d","e","t","e","c","t","e","d"," ","i","n"," ","s","i","m","u","l","a","t","i","o","n",".">>,
          <<"N","o"," ","h","i","g","h","-","r","i","s","k"," ","a","p","p","r","o","v","a","l"," ","p","a","t","t","e","r","n","s"," ","i","d","e","n","t","i","f","i","e","d",".">>>>
        \o (IF Truthy(method) THEN <<<<"R","e","c","o","g","n","i","z","e","d"," ","m","e","t","h","o","d",":"," ">> \o Val(method)>> ELSE <<>>)
  IN Message(INFO,
             <<"N","o"," ","e","l","e","v","a","t","e","d"," ","r","i","s","k"," ","d","e","t","e","c","t","e","d">>,
             <<"T","h","i","s"," ","t","r","a","n","s","a","c","t","i","o","n"," ","d","o","e","s"," ","n","o","t"," ","e","x","h","i","b","i","t"," ","p","a","t","t","e","r","n","s"," ","c","o","m","m","o","n","l","y"," ","a","s","s","o","c","i","a","t","e","d"," ","w","i","t","h"," ","e","l","e","v","a","t","e","d"," ","r","i","s","k",".">>,
             Slice(details, 0, 4),
             <<"A","s"," ","a","l","w","a","y","s",","," ","v","e","r","i","f","y"," ","t","h","e"," ","t","r","a","n","s","a","c","t","i","o","n"," ","d","e","t","a","i","l","s"," ","m","a","t","c","h"," ","y","o","u","r"," ","i","n","t","e","n","t"," ","b","e","f","o","r","e"," ","c","o","n","f","i","r","m","i","n","g",".">>,
             input.confidence)

\* input.evidence?.tags.includes(tag)
EvidenceHas(input, tag) ==
  ~IsNull(input.evidence) /\ InSeq(tag, Val(input.evidence).tags)

detectTags(input) ==
  (IF input.signals.unlimitedApproval THEN <<"UNLIMITED_APPROVAL">>
   ELSE IF Len(input.signals.approvals) > 0 THEN <<"LIMITED_APPROVAL">> ELSE <<>>)
  \o (IF input.signals.isPermit THEN <<"PERMIT_SIGNATURE">> ELSE <<>>)
  \o (IF input.signals.highValueNativeTransfer THEN <<"HIGH_VALUE_NATIVE_TRANSFER">> ELSE <<>>)
  \o (IF input.signals.reverted THEN <<"REVERT">> ELSE <<>>)
  \o (IF input.signals.isMulticall THEN <<"MULTICALL">> ELSE <<>>)
  \o (IF /\ ~Truthy(input.signals.knownMethod)
         /\ ~input.signals.reverted
         /\ Len(input.signals.approvals) = 0
         /\ ~input.signals.isMulticall
         /\ ~input.signals.isPermit
      THEN <<"UNKNOWN_METHOD">> ELSE <<>>)
  \o (IF EvidenceHas(input, KNOWN_BAD_ADDRESS) THEN <<KNOWN_BAD_ADDRESS>> ELSE <<>>)
  \o (IF EvidenceHas(input, KNOWN_BAD_CONTRACT) THEN <<KNOWN_BAD_CONTRACT>> ELSE <<>>)

selectTemplateRevertFirst(tags, input) ==
  IF InSeq(KNOWN_BAD_ADDRESS, tags) \/ InSeq(KNOWN_BAD_CONTRACT, tags)
  THEN buildKnownBadAddressMessage(input)
  ELSE IF InSeq("REVERT", tags) THEN buildRevertMessage(input)
  ELSE IF InSeq("UNLIMITED_APPROVAL", tags) THEN buildUnlimitedApprovalMessage(input)
  ELSE IF InSeq("PERMIT_SIGNATURE", tags) THEN buildPermitMessage(input)
  ELSE IF InSeq("HIGH_VALUE_NATIVE_TRANSFER", tags) THEN buildHighValueTransferMessage(input)
  ELSE IF InSeq("MULTICALL", tags) THEN buildMulticallMessage(input)
  ELSE IF InSeq("UNKNOWN_METHOD", tags) THEN buildUnknownMethodMessage(input)
  ELSE IF InSeq("LIMITED_APPROVAL", tags) THEN buildLimitedApprovalMessage(input)
  ELSE IF input.verdict = WARNING THEN buildEoaTransferMessage(input)
  ELSE buildSafeMessage(input)

selectTemplate(tags, input) ==
  IF InSeq(KNOWN_BAD_ADDRESS, tags) \/ InSeq(KNOWN_BAD_CONTRACT, tags)
  THEN buildKnownBadAddressMessage(input)
  ELSE IF InSeq("UNLIMITED_APPROVAL", tags) THEN buildUnlimitedApprovalMessage(input)
  ELSE IF InSeq("PERMIT_SIGNATURE", tags) THEN buildPermitMessage(input)
  ELSE IF InSeq("REVERT", tags) THEN buildRevertMessage(input)
  ELSE IF InSeq("HIGH_VALUE_NATIVE_TRANSFER", tags) THEN buildHighValueTransferMessage(input)
  ELSE IF InSeq("MULTICALL", tags) THEN buildMulticallMessage(input)
  ELSE IF InSeq("UNKNOWN_METHOD", tags) THEN buildUnknownMethodMessage(input)
  ELSE IF InSeq("LIMITED_APPROVAL", tags) THEN buildLimitedApprovalMessage(input)
  ELSE IF input.verdict = WARNING THEN buildEoaTransferMessage(input)
  ELSE buildSafeMessage(input)

enforceConstraintsNoClamp(msg) ==
  [severity |-> msg.severity,
   title |-> Slice(msg.title, 0, 40),
   summary |-> Slice(msg.summary, 0, 200),
   details |-> Slice(msg.details, 0, 4),
   recommendation |-> msg.recommendation,
   confidence |-> msg.confidence]

enforceConstraints(msg) ==
  [severity |-> msg.severity,
   title |-> Slice(msg.title, 0, 40),
   summary |-> Slice(msg.summary, 0, 200),
   details |-> Slice(msg.details, 0, 4),
   recommendation |-> msg.recommendation,
   confidence |-> Max(0, Min(100, msg.confidence))]

buildCompliantWarning(input) ==
  LET tags == detectTags(input)
      raw == selectTemplate(tags, input)
      constrained == enforceConstraints(raw)
  IN [constrained EXCEPT
        !.title = sanitizeLanguage(constrained.title),
        !.summary = sanitizeLanguage(constrained.summary),
        !.details = [i \in 1..Len(constrained.details) |->
                       sanitizeLanguage(constrained.details[i])],
        !.recommendation = sanitizeLanguage(constrained.recommendation)]

NoWarningInput == [kind |-> "none"]

\* neither sanitizeLanguage nor buildCompliantWarning has been called
NoTransaction == [kind |-> "none"]

SnapIdle ==
  /\ transaction = NoTransaction
  /\ insight = Null
  /\ cancelled = FALSE

TextIdle ==
  /\ textIn = <<>>
  /\ textOut = Null
  /\ warningInput = NoWarningInput
  /\ warning = Null

-----------------------------------------------------------------------------
(* Sample values *)

\* 20-byte addresses, as "0x" and 40 hex digits
AddrSpenderA == <<"0","x","1","1","1","1","1","1","1","1","1","1","1","1","1","1","1","1","1","1","1","1","1","1","1","1","1","1","1","1","1","1","1","1","1","1","1","1","1","1","1","1">>
AddrSpenderB == <<"0","x","0","0","0","0","0","0","0","0","0","0","0","0","0","0","0","0","0","0","0","0","0","0","0","0","0","0","0","0","0","0","0","0","d","e","a","d","b","e","e","f">>

\* decimal amounts, as approval.amount holds them
AmountMaxUint256 ==
  <<"1","1","5","7","9","2","0","8","9","2","3","7","3","1","6","1","9","5","4","2","3","5","7","0","9","8","5","0","0","8","6","8","7","9","0","7","8","5","3","2","6","9","9","8","4","6","6","5","6","4","0","5","6","4","0","3","9","4","5","7","5","8","4","0","0","7","9","1","3","1","2","9","6","3","9","9","3","5">>
AmountThousand == <<"1","0","0","0">>

M_approve == <<"a","p","p","r","o","v","e","(","a","d","d","r","e","s","s",",","u","i","n","t","2","5","6",")">>
M_transfer == <<"t","r","a","n","s","f","e","r","(","a","d","d","r","e","s","s",",","u","i","n","t","2","5","6",")">>

\* calldata: none, a selector alone (10 characters), a selector and one byte
DataEmpty == <<"0","x">>
DataSelectorOnly == <<"0","x","1","2","3","4","5","6","7","8">>
DataSelectorPlus == <<"0","x","1","2","3","4","5","6","7","8","a","b">>

\* native values: 0.05 ETH and 1 ETH in wei, and encodings of zero
Value005Eth == <<"0","x","b","1","a","2","b","c","2","e","c","5","0","0","0","0">>
Value1Eth == <<"0","x","d","e","0","b","6","b","3","a","7","6","4","0","0","0","0">>
S_0x000 == <<"0","x","0","0","0">>

\* messages a failed eth_call carries
R_insufficientAllowance == <<"i","n","s","u","f","f","i","c","i","e","n","t"," ","a","l","l","o","w","a","n","c","e">>
R_InsufficientBalanceMixed == <<"E","R","C","2","0",":"," ","I","n","s","u","f","f","i","c","i","e","n","t"," ","B","a","l","a","n","c","e">>
R_executionReverted == <<"e","x","e","c","u","t","i","o","n"," ","r","e","v","e","r","t","e","d">>
R_TransferFromFailed == <<"T","R","A","N","S","F","E","R","_","F","R","O","M","_","F","A","I","L","E","D">>
R_AssertFailed == <<"A","s","s","e","r","t"," ","f","a","i","l","e","d">>
R_Aborted == <<"T","h","i","s"," ","o","p","e","r","a","t","i","o","n"," ","w","a","s"," ","a","b","o","r","t","e","d">>
R_FetchFailed == <<"f","e","t","c","h"," ","f","a","i","l","e","d">>
R_Empty == <<>>

RpcUrl == <<"h","t","t","p","s",":","/","/","r","p","c",".","e","x","a","m","p","l","e">>

-----------------------------------------------------------------------------
(* assessRisk on its own: the inputs are drawn from the types of its        *)
(* parameters, not only from what the route passes                          *)

SampleReasons ==
  {Null, Some(R_Empty), Some(R_insufficientAllowance), Some(R_InsufficientBalanceMixed),
   Some(R_executionReverted), Some(R_TransferFromFailed), Some(R_AssertFailed),
   Some(R_Aborted)}

SampleEthCallResults ==
  {Ok(Some(S_0x), RpcUrl)} \cup {Failed(Null, r, RpcUrl) : r \in SampleReasons}

Approval(spender, amount) ==
  [token |-> AddrSpenderB, owner |-> AddrSpenderB, spender |-> spender, amount |-> amount]

\* every combination of the fields the rules read
SampleSignalSets ==
  [knownMethod : {Null, Some(M_approve)},
   approvals : {<<>>, <<Approval(AddrSpenderA, AmountMaxUint256)>>},
   erc20Transfers : {<<>>},
   unlimitedApproval : BOOLEAN,
   spenderIsContract : {Null, Some(TRUE), Some(FALSE)},
   isPermit : BOOLEAN,
   isMulticall : BOOLEAN,
   highValueNativeTransfer : BOOLEAN]

NoSignals ==
  [knownMethod |-> Null, approvals |-> <<>>, erc20Transfers |-> <<>>,
   unlimitedApproval |-> FALSE, spenderIsContract |-> Null, isPermit |-> FALSE,
   isMulticall |-> FALSE, highValueNativeTransfer |-> FALSE]

SampleData == {DataEmpty, DataSelectorOnly, DataSelectorPlus}
SampleValues == {Null, Some(S_0x0), Some(S_0x), Some(Value005Eth)}

\* Inputs of assessRisk: every combination of rule triggers (a successful, a
\* dangerously failed and a harmlessly failed call; every signal set), and
\* every sample reason, calldata and value on signal sets without or with an
\* approval.
AssessInputs ==
  ([ecr : {Ok(Some(S_0x), RpcUrl), Failed(Null, Some(R_insufficientAllowance), RpcUrl),
           Failed(Null, Some(R_Aborted), RpcUrl)},
    sig : SampleSignalSets, eoa : BOOLEAN, d : {DataEmpty, DataSelectorPlus},
    v : {Some(S_0x0), Some(Value005Eth)}])
  \cup
  ([ecr : SampleEthCallResults,
    sig : {NoSignals,
           [NoSignals EXCEPT !.approvals = <<Approval(AddrSpenderA, AmountThousand)>>,
                             !.knownMethod = Some(M_approve)]},
    eoa : BOOLEAN, d : SampleData, v : SampleValues])

NoRisk == [verdict |-> SAFE, confidence |-> 0, summary |-> <<>>, reasons |-> <<>>]
NoResponse == [kind |-> "none"]

NoBody == [chainId |-> Null, data |-> Null, value |-> Null]

\* no call made
NoRpc == [kind |-> "none"]
NoRpcYet == [ethCall |-> NoRpc, spenderCode |-> NoRpc, recipientCode |-> NoRpc]

InitAssess ==
  /\ pc = "step4"
  /\ body = NoBody
  /\ rpcLog = NoRpcYet
  /\ ETH_RPC_URL = Some(RpcUrl)
  /\ chainId = S_eth
  /\ \E in \in AssessInputs :
       /\ ethCallResult = in.ecr
       /\ signals = in.sig
       /\ toIsEOA = in.eoa
       /\ data = in.d
       /\ value = in.v
  /\ results = <<>>
  /\ risk = NoRisk
  /\ riskBefore = Null
  /\ response = NoResponse
  /\ SnapIdle
  /\ TextIdle

\* routes/txSim.ts step 4: const risk = assessRisk(ethCallResult, signals, toIsEOA, data, value)
AssessRisk ==
  /\ pc = "step4"
  /\ results' = CollectResults(ethCallResult, signals, toIsEOA, data, value)
  /\ risk' = assessRisk(ethCallResult, signals, toIsEOA, data, value)
  /\ pc' = "step5"
  /\ UNCHANGED <<textVars, snapVars, body, rpcLog, ETH_RPC_URL, chainId, data, value, ethCallResult, signals, toIsEOA,
                 riskBefore, response>>

\* s with its i-th element removed
RemoveAt(s, i) == SubSeq(s, 1, i - 1) \o SubSeq(s, i + 1, Len(s))

\* bigger is smaller with one more element somewhere
IsOneMore(smaller, bigger) ==
  /\ Len(bigger) = Len(smaller) + 1
  /\ \E i \in 1..Len(bigger) : RemoveAt(bigger, i) = smaller

\* A second call of assessRisk on inputs that differ from the assessed ones in
\* one parameter (for the signal set: in one field), are inputs of AssessInputs
\* too, and make exactly one more rule fire, every other finding staying as it
\* was.
AssessAgain(e, s, eoa, d, v) ==
  LET again == CollectResults(e, s, eoa, d, v)
  IN /\ [ecr |-> e, sig |-> s, eoa |-> eoa, d |-> d, v |-> v] \in AssessInputs
     /\ IsOneMore(results, again)
     /\ ethCallResult' = e /\ signals' = s /\ toIsEOA' = eoa /\ data' = d /\ value' = v
     /\ results' = again
     /\ risk' = assessRisk(e, s, eoa, d, v)
     /\ riskBefore' = Some(risk)
  /\ UNCHANGED <<textVars, snapVars, pc, body, rpcLog, ETH_RPC_URL, chainId, response>>

OneFieldChanged(s) ==
  {[s EXCEPT !.isPermit = TRUE], [s EXCEPT !.isMulticall = TRUE],
   [s EXCEPT !.highValueNativeTransfer = TRUE], [s EXCEPT !.knownMethod = Null],
   [s EXCEPT !.unlimitedApproval = TRUE],
   [s EXCEPT !.approvals = <<Approval(AddrSpenderA, AmountThousand)>>]}

AssessAgainWithOneMoreFinding ==
  /\ pc = "step5"
  /\ \/ \E e \in SampleEthCallResults : AssessAgain(e, signals, toIsEOA, data, value)
     \/ \E s \in OneFieldChanged(signals) : AssessAgain(ethCallResult, s, toIsEOA, data, value)
     \/ \E eoa \in BOOLEAN : AssessAgain(ethCallResult, signals, eoa, data, value)
     \/ \E d \in SampleData : AssessAgain(ethCallResult, signals, toIsEOA, d, value)
     \/ \E v \in SampleValues : AssessAgain(ethCallResult, signals, toIsEOA, data, v)

NextAssess == AssessRisk \/ AssessAgainWithOneMoreFinding

SpecAssess == InitAssess /\ [][NextAssess]_vars

-----------------------------------------------------------------------------
(* routes/txSim.ts: POST /api/tx/simulate *)

MAX_DATA_LENGTH == 65536

\* /^0x[a-fA-F0-9]*$/
IsHexString(s) == StartsWith(s, S_0x) /\ \A i \in 3..Len(s) : IsHexDigit(s[i])

Zeros(n) == [i \in 1..n |-> "0"]
\* the 32-byte argument word of an address given as 40 hex digits
AddrWord(hex40) == Zeros(24) \o hex40
\* a 32-byte word: its first hex digit, the 62 between, its last
Word(top, mid, low) == <<top>> \o [i \in 1..62 |-> mid] \o <<low>>

TxFrom == <<"0","x","A","b","C","d","E","f","0","1","2","3","4","5","6","7","8","9","a","B","c","D","e","F","0","1","2","3","4","5","6","7","8","9","a","b","c","d","e","f","0","1">>
TxTo == <<"0","x","D","A","C","1","7","F","9","5","8","D","2","e","e","5","2","3","a","2","2","0","6","2","0","6","9","9","4","5","9","7","C","1","3","D","8","3","1","e","c","7">>
SpenderHex == <<"1","1","1","1","1","1","1","1","1","1","1","1","1","1","1","1","1","1","1","1","1","1","1","1","1","1","1","1","1","1","1","1","1","1","1","1","1","1","1","1">>

D_invalid == <<"0","x","z","z">>
D_unknown == <<"0","x","1","2","3","4","5","6","7","8">> \o Word("0", "0", "1")
D_approveMax == Sel_approve \o AddrWord(SpenderHex) \o Word("f", "f", "f")
D_approveHalf == <<"0","x","0","9","5","E","A","7","B","3">> \o AddrWord(SpenderHex) \o Word("8", "0", "0")
D_approveLimited == Sel_approve \o AddrWord(SpenderHex) \o Word("0", "0", "5")
D_approveShort == Sel_approve \o AddrWord(SpenderHex)
D_transfer == Sel_transfer \o AddrWord(SpenderHex) \o Word("0", "0", "5")
D_permit == Sel_permit \o AddrWord(SpenderHex)
D_multicall == Sel_multicall \o Word("0", "0", "2")

S_bsc == <<"b","s","c">>

SampleBodies ==
  [chainId : {Null, Some(S_eth), Some(S_bsc)},
   data : {Null, Some(DataSelectorOnly), Some(D_invalid), Some(D_unknown),
           Some(D_approveMax), Some(D_approveHalf), Some(D_approveLimited),
           Some(D_approveShort), Some(D_transfer), Some(D_permit), Some(D_multicall)},
   value : {Null, Some(S_0x0), Some(Value005Eth), Some(Value1Eth)}]

R_revertedAllowance == <<"e","x","e","c","u","t","i","o","n"," ","r","e","v","e","r","t","e","d",":"," ","i","n","s","u","f","f","i","c","i","e","n","t"," ","a","l","l","o","w","a","n","c","e">>
Code_contract == <<"0","x","6","0","8","0","6","0","4","0","5","2">>
ReturnTrue == S_0x \o Word("0", "0", "1")

\* hex of the bytes of an ASCII string
CharCode(c) ==
  IF InSeq(c, AsciiPrintable) THEN IndexIn(c, AsciiPrintable) + 31
  ELSE IF InSeq(c, AsciiControl) THEN IndexIn(c, AsciiControl) - 1
  ELSE 127
HexOfString(s) ==
  [i \in 1..(2 * Len(s)) |->
     IF i % 2 = 1 THEN HexDigits[(CharCode(s[(i + 1) \div 2]) \div 16) + 1]
     ELSE HexDigits[(CharCode(s[i \div 2]) % 16) + 1]]
\* the 32-byte word of a number below 65536
SmallWord(n) == Zeros(60) \o
  <<HexDigits[(n \div 4096) + 1], HexDigits[((n \div 256) % 16) + 1],
    HexDigits[((n \div 16) % 16) + 1], HexDigits[(n % 16) + 1]>>
\* the ABI encoding of Error(s): selector, offset word, length word, bytes
\* padded to whole words
ErrorPayload(s) ==
  Sel_Error \o SmallWord(32) \o SmallWord(Len(s)) \o HexOfString(s)
    \o Zeros((64 - ((2 * Len(s)) % 64)) % 64)

\* what the eth_call may yield
EthCallOutcomes ==
  {Throws(R_Aborted), Throws(R_FetchFailed), RpcError(Some(R_revertedAllowance)),
   RpcError(Null), RpcResult(S_0x), RpcResult(ReturnTrue),
   RpcResult(ErrorPayload(R_insufficientAllowance)), Envelope(Null, Null),
   RpcResult(ErrorPayload(<<>>)),
   RpcResult(Sel_Error \o SmallWord(32) \o SmallWord(1024))}

\* what an eth_getCode may yield
GetCodeOutcomes ==
  {Throws(R_Aborted), Throws(R_FetchFailed), RpcError(Some(R_executionReverted)),
   RpcResult(S_0x), RpcResult(Code_contract), Envelope(Null, Null)}

-----------------------------------------------------------------------------
(* The snap: onTransaction and its simulation client *)

\* the client aborts its fetch after this many milliseconds
TIMEOUT_MS == 2000

\* String.prototype.split with a one-character separator
RECURSIVE SplitFrom(_, _, _, _)
SplitFrom(s, sep, i, cur) ==
  IF i > Len(s) THEN <<cur>>
  ELSE IF s[i] = sep THEN <<cur>> \o SplitFrom(s, sep, i + 1, <<>>)
  ELSE SplitFrom(s, sep, i + 1, Append(cur, s[i]))
Split(s, sep) == SplitFrom(s, sep, 1, <<>>)

\* onTransaction's local chain: 'eth' to begin with, and set to 'eth' when
\* the numeric part of the wallet's chain id is '1'
chain(walletChainId) ==
  LET parts == Split(walletChainId, ":")
      numericId == IF Len(parts) > 1 THEN parts[2] ELSE parts[1]
  IN IF walletChainId # <<>> /\ numericId = <<"1">> THEN S_eth ELSE S_eth

\* a field of a JSON object: <<>> when it is absent
Field(obj, name) == IF name \in DOMAIN obj THEN Some(obj[name]) ELSE Null

\* the body simulateTransaction posts for onTransaction's arguments
RequestBody(tx) ==
  [chainId |-> Some(OrElse(Some(chain(tx.chainId)), S_eth)),
   data |-> Some(OrElse(Some(OrElse(tx.data, S_0x)), S_0x)),
   value |-> Some(OrElse(Some(OrElse(tx.value, S_0x0)), S_0x0))]

\* simulateTransaction's result for the reply of its fetch: <<>> when the
\* fetch threw or was aborted, <<the backend's response>> otherwise
simulateTransaction(reply) ==
  IF IsNull(reply) THEN Null
  ELSE IF ~(Val(reply).status \in 200..299) THEN Null
  ELSE IF ~Val(reply).ok \/ ~Truthy(Field(Val(reply), "message")) THEN Null
  ELSE Field(Val(reply), "message")

\* what onTransaction returns for the client's result
FallbackInsight == [content |-> "renderFallbackWarning", severity |-> Null]
Insight(msg) ==
  IF ~Truthy(msg) THEN FallbackInsight
  ELSE IF Val(msg).severity = HIGH
  THEN [content |-> "renderTxWarning", message |-> Val(msg), severity |-> Some("critical")]
  ELSE [content |-> "renderTxWarning", message |-> Val(msg), severity |-> Null]

S_eip155_1 == <<"e","i","p","1","5","5",":","1">>
S_eip155_137 == <<"e","i","p","1","5","5",":","1","3","7">>

SampleTransactions ==
  [chainId : {S_eip155_1, S_eip155_137},
   to : {Null, Some(TxTo)},
   data : {Null, Some(D_approveMax), Some(D_transfer)},
   value : {Null, Some(Value005Eth)}]

Init ==
  /\ \/ pc = "validate" /\ body \in SampleBodies /\ transaction = NoTransaction
     \/ pc = "onTransaction" /\ body = NoBody /\ transaction \in SampleTransactions
  /\ insight = Null
  /\ cancelled = FALSE
  /\ rpcLog = NoRpcYet
  /\ ETH_RPC_URL \in {Null, Some(RpcUrl)}
  /\ chainId = <<>>
  /\ data = <<>>
  /\ value = Null
  /\ ethCallResult = Ok(Null, S_none)
  /\ signals = NoSignals
  /\ toIsEOA = FALSE
  /\ results = <<>>
  /\ risk = NoRisk
  /\ riskBefore = Null
  /\ response = NoResponse
  /\ TextIdle

\* onTransaction, up to the request of the simulation client
OnTransaction ==
  /\ pc = "onTransaction"
  /\ IF OrElse(transaction.to, <<>>) = <<>>
     THEN /\ insight' = Some(FallbackInsight)
          /\ pc' = "returned"
          /\ UNCHANGED body
     ELSE /\ body' = RequestBody(transaction)
          /\ pc' = "validate"
          /\ UNCHANGED insight
  /\ UNCHANGED <<textVars, transaction, cancelled, rpcLog, ETH_RPC_URL, chainId, data, value, ethCallResult,
                 signals, toIsEOA, results, risk, riskBefore, response>>

\* the client's fetch throws or is aborted after TIMEOUT_MS
FetchFails ==
  /\ pc = "validate"
  /\ transaction # NoTransaction
  /\ insight' = Some(Insight(simulateTransaction(Null)))
  /\ pc' = "returned"
  /\ UNCHANGED <<textVars, transaction, cancelled, body, rpcLog, ETH_RPC_URL, chainId, data, value,
                 ethCallResult, signals, toIsEOA, results, risk, riskBefore, response>>

\* the client receives the backend's response and onTransaction returns
ReceiveResponse ==
  /\ pc = "done"
  /\ transaction # NoTransaction
  /\ insight' = Some(Insight(simulateTransaction(Some(response))))
  /\ pc' = "returned"
  /\ UNCHANGED <<textVars, transaction, cancelled, body, rpcLog, ETH_RPC_URL, chainId, data, value,
                 ethCallResult, signals, toIsEOA, results, risk, riskBefore, response>>

\* simulateSchema.safeParse(req.body); from and to are well-formed
Validate ==
  /\ pc = "validate"
  /\ LET cid == IF IsNull(body.chainId) THEN S_eth ELSE Val(body.chainId)
         d == IF IsNull(body.data) THEN S_0x ELSE Val(body.data)
         v == IF IsNull(body.value) THEN S_0x0 ELSE Val(body.value)
         valid == /\ Len(cid) >= 1 /\ Len(cid) <= 16
                  /\ IsHexString(d) /\ Len(d) <= MAX_DATA_LENGTH * 2 + 2
                  /\ IsHexString(v)
     IN IF valid
        THEN /\ chainId' = cid /\ data' = d /\ value' = Some(v)
             /\ pc' = "step1"
             /\ UNCHANGED response
        ELSE /\ response' = [status |-> 400, ok |-> FALSE]
             /\ pc' = "done"
             /\ UNCHANGED <<chainId, data, value>>
  /\ UNCHANGED <<textVars, snapVars, body, rpcLog, ETH_RPC_URL, ethCallResult, signals, toIsEOA, results, risk, riskBefore>>

\* The client closes the connection while the handler awaits a network call
\* (step 1, 2 or 3).  The handler registers no listener on the request and
\* rpcCall's AbortController is fired by its timer only, so nothing of the
\* handler's state changes.
Cancel ==
  /\ pc \in {"step1", "step2", "step3"}
  /\ ~cancelled
  /\ cancelled' = TRUE
  /\ UNCHANGED <<textVars, transaction, insight, pc, body, rpcLog, ETH_RPC_URL, chainId, data,
                 value, ethCallResult, signals, toIsEOA, results, risk, riskBefore, response>>

\* step 1: await simulateEthCall(chainId, {from, to, data, value, gas})
SimulateEthCall ==
  /\ pc = "step1"
  /\ \E o \in (IF IsNull(getRpcUrl(chainId)) THEN {NoRpc} ELSE EthCallOutcomes) :
       /\ ethCallResult' = simulateEthCall(chainId, o)
       /\ rpcLog' = [rpcLog EXCEPT !.ethCall = o]
  /\ pc' = "step2"
  /\ UNCHANGED <<textVars, snapVars, body, ETH_RPC_URL, chainId, data, value, signals, toIsEOA, results, risk,
                 riskBefore, response>>

\* step 2: await extractSignals(chainId, from, to, data, value)
ExtractSignals ==
  /\ pc = "step2"
  /\ \E o \in (IF IsNull(parseApproval(data, TxTo, TxFrom)) \/ IsNull(getRpcUrl(chainId))
               THEN {NoRpc} ELSE GetCodeOutcomes) :
       /\ signals' = extractSignals(chainId, TxFrom, TxTo, data, value, o)
       /\ rpcLog' = [rpcLog EXCEPT !.spenderCode = o]
  /\ pc' = "step3"
  /\ UNCHANGED <<textVars, snapVars, body, ETH_RPC_URL, chainId, data, value, ethCallResult, toIsEOA, results,
                 risk, riskBefore, response>>

\* the classification of the recipient from what getCode returned; toIsEOA
\* starts false and the catch leaves it so
RecipientIsEOA(code) ==
  IF code.t = "null" THEN FALSE
  ELSE IF code.t = "undefined" THEN FALSE
  ELSE code.s = S_0x \/ code.s = S_0x0 \/ Len(code.s) <= 2

\* step 3: await getCode(chainId, to)
ClassifyRecipient ==
  /\ pc = "step3"
  /\ \E o \in (IF IsNull(getRpcUrl(chainId)) THEN {NoRpc} ELSE GetCodeOutcomes) :
       /\ toIsEOA' = RecipientIsEOA(getCode(chainId, TxTo, o))
       /\ rpcLog' = [rpcLog EXCEPT !.recipientCode = o]
  /\ pc' = "step4"
  /\ UNCHANGED <<textVars, snapVars, body, ETH_RPC_URL, chainId, data, value, ethCallResult, signals, results,
                 risk, riskBefore, response>>

\* steps 5 and 6: the audit log is fire-and-forget and cannot fail the
\* request; res.json(...)
Respond ==
  /\ pc = "step5"
  /\ response' =
       [status |-> 200, ok |-> TRUE,
        verdict |-> risk.verdict, confidence |-> risk.confidence,
        summary |-> risk.summary, reasons |-> risk.reasons,
        signals |-> [reverted |-> ~ethCallResult.success,
                     revertReason |-> ethCallResult.revertReason,
                     erc20Transfers |-> signals.erc20Transfers,
                     approvals |-> signals.approvals,
                     spenderIsContract |-> signals.spenderIsContract,
                     unlimitedApproval |-> signals.unlimitedApproval,
                     highValueNativeTransfer |-> signals.highValueNativeTransfer,
                     knownMethod |-> signals.knownMethod],
        meta |-> [rpcUsed |-> ethCallResult.rpcUrl]]
  /\ pc' = "done"
  /\ UNCHANGED <<textVars, snapVars, body, rpcLog, ETH_RPC_URL, chainId, data, value, ethCallResult, signals, toIsEOA,
                 results, risk, riskBefore>>

Next ==
  \/ OnTransaction \/ FetchFails \/ ReceiveResponse \/ Cancel
  \/ Validate \/ SimulateEthCall \/ ExtractSignals \/ ClassifyRecipient \/ AssessRisk \/ Respond

Spec == Init /\ [][Next]_vars

-----------------------------------------------------------------------------
(* Properties of assessRisk *)

Rank(v) == IF v = SAFE THEN 0 ELSE IF v = WARNING THEN 1 ELSE 2

\* the findings of the rules, each rule asked on its own
Fired ==
  {Val(r) : r \in {ruleRevert(ethCallResult), ruleUnlimitedApproval(signals),
                   ruleLimitedApproval(signals), rulePermit(signals),
                   ruleHighValueTransfer(signals),
                   ruleUnknownMethod(signals, toIsEOA, data),
                   ruleDirectEOATransfer(signals, toIsEOA, value),
                   ruleMulticall(signals)} \ {Null}}

Assessed == pc = "step5"

\* C1: if no rule fires the assessment is SAFE with confidence 70; otherwise
\* the verdict is the greatest severity among the fired rules and the
\* confidence the greatest confidence among the fired rules of that severity.
C1_VerdictAndConfidence ==
  Assessed =>
    IF Fired = {}
    THEN risk.verdict = SAFE /\ risk.confidence = 70
    ELSE /\ \A f \in Fired : Rank(f.verdict) <= Rank(risk.verdict)
         /\ \E f \in Fired : f.verdict = risk.verdict /\ f.confidence = risk.confidence
         /\ \A f \in Fired : f.verdict = risk.verdict => f.confidence <= risk.confidence

\* a dangerous revert (85), an unlimited approval to a contract (90) and a
\* permit (75) fired together
C1_Witness ==
  /\ Assessed
  /\ \E f \in Fired : f.reason.rule = "revert" /\ f.verdict = DANGER
  /\ \E f \in Fired : f.reason.rule = "unlimitedApprovalContract"
  /\ \E f \in Fired : f.reason.rule = "permit"
  /\ risk.verdict = DANGER /\ risk.confidence = 90

\* the sample reasons that hold one of the known-dangerous phrases
DangerousSampleReasons ==
  {Some(R_insufficientAllowance), Some(R_InsufficientBalanceMixed),
   Some(R_executionReverted), Some(R_TransferFromFailed)}

\* C7: for every failed simulation the revert rule fires, DANGER/85 exactly
\* when the reason holds a known-dangerous phrase and WARNING/70 otherwise; a
\* revert with "insufficient allowance" and no other finding is assessed
\* DANGER/85.
C7_RevertRule ==
  (Assessed /\ ~ethCallResult.success) =>
    /\ results # <<>>
    /\ results[1].reason.rule = "revert"
    /\ IF ethCallResult.revertReason \in DangerousSampleReasons
       THEN results[1].verdict = DANGER /\ results[1].confidence = 85
       ELSE results[1].verdict = WARNING /\ results[1].confidence = 70
    /\ (ethCallResult.revertReason = Some(R_insufficientAllowance) /\ Len(results) = 1)
         => (risk.verdict = DANGER /\ risk.confidence = 85)

C7_Witness ==
  /\ Assessed
  /\ ~ethCallResult.success
  /\ ethCallResult.revertReason = Some(R_insufficientAllowance)
  /\ Len(results) = 1
  /\ risk.verdict = DANGER /\ risk.confidence = 85

\* the evaluation order of the rules
RuleRank(rule) ==
  CASE rule = "revert" -> 1
    [] rule \in {"unlimitedApprovalContract", "unlimitedApprovalEOA",
                 "unlimitedApprovalUnknown"} -> 2
    [] rule = "limitedApproval" -> 3
    [] rule = "permit" -> 4
    [] rule = "highValueTransfer" -> 5
    [] rule = "unknownMethod" -> 6
    [] rule = "directEOATransfer" -> 7
    [] rule = "multicall" -> 8

\* C8: when a rule fired, the summary is the reason of the fired rule with the
\* greatest confidence among the rules of the winning severity, and among
\* rules of equal confidence that of the rule evaluated first.
C8_SummaryOfTopRule ==
  (Assessed /\ Fired # {}) =>
    \E f \in Fired :
      /\ f.verdict = risk.verdict
      /\ risk.summary = f.reason
      /\ \A g \in Fired :
           g.verdict = risk.verdict =>
             \/ g.confidence < f.confidence
             \/ g.confidence = f.confidence
                  /\ RuleRank(g.reason.rule) >= RuleRank(f.reason.rule)

\* a dangerous revert and an unlimited approval to an unknown spender, both 85
C8_Witness ==
  /\ Assessed
  /\ \E f \in Fired : f.reason.rule = "revert" /\ f.verdict = DANGER /\ f.confidence = 85
  /\ \E f \in Fired : f.reason.rule = "unlimitedApprovalUnknown" /\ f.confidence = 85
  /\ risk.summary.rule = "revert"

\* C9: when a rule fired, reasons holds exactly one entry for every fired
\* rule, whatever its severity, in evaluation order.
C9_ReasonsComplete ==
  (Assessed /\ Fired # {}) =>
    /\ Len(risk.reasons) = Cardinality(Fired)
    /\ {risk.reasons[i] : i \in 1..Len(risk.reasons)} = {f.reason : f \in Fired}
    /\ \A i, j \in 1..Len(risk.reasons) :
         i < j => RuleRank(risk.reasons[i].rule) < RuleRank(risk.reasons[j].rule)

\* the summary is that of the second finding, and a finding of lower severity
\* follows it
C9_Witness ==
  /\ Assessed
  /\ Len(results) >= 3
  /\ risk.verdict = DANGER
  /\ risk.summary = results[2].reason
  /\ results[3].verdict = WARNING
  /\ risk.reasons[3] = results[3].reason

\* C10: the verdict for a list of findings with one more finding is not lower
\* than the verdict for the list without it.
C10_VerdictMonotonic ==
  (Assessed /\ ~IsNull(riskBefore)) => Rank(risk.verdict) >= Rank(Val(riskBefore).verdict)

\* a warning added to a list whose verdict was DANGER
C10_Witness ==
  /\ Assessed
  /\ ~IsNull(riskBefore)
  /\ Val(riskBefore).verdict = DANGER
  /\ Len(Val(riskBefore).reasons) = 1
  /\ Len(results) = 2
  /\ results[2].verdict = WARNING

-----------------------------------------------------------------------------
(* Properties of the request pipeline *)

Answered == pc \in {"step5", "done"} /\ response # [status |-> 400, ok |-> FALSE]

\* no calldata, 0.05 ETH, the recipient classified as an account, the
\* simulation successful
PlainSmallTransfer ==
  /\ Answered
  /\ data = DataEmpty
  /\ value = Some(Value005Eth)
  /\ toIsEOA
  /\ ethCallResult.success

\* C4 as the specification states it: such a transfer is assessed SAFE with
\* confidence 70.
C4_PlainTransferSafe ==
  PlainSmallTransfer => (risk.verdict = SAFE /\ risk.confidence = 70)

\* C4, amended: a transfer of 0.05 ETH without calldata to an account, the
\* simulation successful, has no high-value, approval, permit or multicall
\* signal, and the direct-transfer rule alone fires: the pipeline returns
\* WARNING with confidence 30.
C4_PlainTransferWarning ==
  PlainSmallTransfer =>
    /\ ~signals.highValueNativeTransfer
    /\ signals.approvals = <<>> /\ ~signals.isPermit /\ ~signals.isMulticall
    /\ Len(results) = 1
    /\ results[1].reason.rule = "directEOATransfer"
    /\ risk.verdict = WARNING /\ risk.confidence = 30
    /\ risk.summary = results[1].reason

C4_Witness ==
  /\ PlainSmallTransfer
  /\ pc = "done"
  /\ rpcLog.recipientCode = RpcResult(S_0x)
  /\ response.verdict = WARNING /\ response.confidence = 30

\* the eth_call was made and fetch or the decoding of its reply threw: a
\* transport failure or the abort of the timer
TransportFailed == rpcLog.ethCall.kind = "throw"

\* C5: when the eth_call times out or the transport fails, simulateEthCall
\* returns a result with success false and the message of the error as its
\* reason; assessRisk gives such a result WARNING or DANGER for every signal
\* set, and the handler answers with that verdict.
C5_TransportFailureIsNotSafe ==
  TransportFailed =>
    /\ ~ethCallResult.success
    /\ ethCallResult.revertReason = Some(rpcLog.ethCall.message)
    /\ pc = "step2" =>
         \A s \in SampleSignalSets, eoa \in BOOLEAN :
           assessRisk(ethCallResult, s, eoa, data, value).verdict \in {WARNING, DANGER}
    /\ Answered => risk.verdict \in {WARNING, DANGER}
    /\ pc = "done" => (response.status = 200 /\ response.verdict = risk.verdict)

\* the timer aborted the eth_call of a plain transfer; nothing else was found
C5_Witness ==
  /\ pc = "done"
  /\ TransportFailed
  /\ rpcLog.ethCall.message = R_Aborted
  /\ Len(results) = 1
  /\ response.verdict = WARNING /\ response.confidence = 70
  /\ response.signals.reverted

\* the calldata was an approve call and the handler is past extraction
ApproveExtracted == pc \in {"step3", "step4", "step5", "done"} /\ signals.approvals # <<>>

\* the probe of the spender's code failed: it threw (transport failure or
\* timeout), the node answered with an error or with neither error nor result,
\* or no node is configured
ProbeFailed ==
  \/ rpcLog.spenderCode.kind \in {"none", "throw"}
  \/ rpcLog.spenderCode.kind = "json"
       /\ (~IsNull(rpcLog.spenderCode.error) \/ IsNull(rpcLog.spenderCode.result))

UnlimitedFinding ==
  {results[i] : i \in {j \in 1..Len(results) :
                         results[j].reason.rule \in {"unlimitedApprovalContract",
                                                     "unlimitedApprovalEOA",
                                                     "unlimitedApprovalUnknown"}}}

\* C6: after the extraction of an approve call, spenderIsContract is null when
\* the probe of the spender's code failed, and otherwise true for a spender
\* with code and false for one without; the unlimited-approval rule fires for
\* an unlimited amount in each case, as DANGER with confidence 85 when
\* spenderIsContract is null, 90 for a contract and 95 for an account.
C6_SpenderProbe ==
  ApproveExtracted =>
    /\ IF ProbeFailed
       THEN signals.spenderIsContract = Null
       ELSE signals.spenderIsContract =
              Some(Val(rpcLog.spenderCode.result) \notin {S_0x, S_0x0})
    /\ (Answered /\ signals.unlimitedApproval) =>
         \E f \in UnlimitedFinding :
           /\ Cardinality(UnlimitedFinding) = 1
           /\ f.verdict = DANGER
           /\ f.confidence = (IF ProbeFailed THEN 85
                              ELSE IF rpcLog.spenderCode.result = Some(S_0x) THEN 95
                              ELSE 90)
           /\ risk.verdict = DANGER
           /\ risk.confidence >= f.confidence

\* the probe timed out on an unlimited approval that the simulation accepted
C6_Witness ==
  /\ pc = "done"
  /\ ApproveExtracted
  /\ signals.unlimitedApproval
  /\ rpcLog.spenderCode = Throws(R_Aborted)
  /\ ethCallResult.success
  /\ signals.spenderIsContract = Null
  /\ response.verdict = DANGER /\ response.confidence = 85

-----------------------------------------------------------------------------
(* parseApproval and isUnlimitedApproval on approve calls whose amount word  *)
(* ranges over both sides of 2^255                                           *)

TopDigits == {"0", "1", "7", "8", "9", "f"}
MidDigits == {"0", "5", "f"}
LowDigits == {"0", "1", "e", "f"}

SampleApproveCalls ==
  {Sel_approve \o AddrWord(SpenderHex) \o Word(top, mid, low) :
     top \in TopDigits, mid \in MidDigits, low \in LowDigits}

InitSignals ==
  /\ pc = "parse"
  /\ body = NoBody
  /\ rpcLog = NoRpcYet
  /\ ETH_RPC_URL = Null
  /\ chainId = S_eth
  /\ data \in SampleApproveCalls
  /\ value = Some(S_0x0)
  /\ ethCallResult = Ok(Null, S_none)
  /\ signals = NoSignals
  /\ toIsEOA = FALSE
  /\ results = <<>>
  /\ risk = NoRisk
  /\ riskBefore = Null
  /\ response = NoResponse
  /\ SnapIdle
  /\ TextIdle

\* const approval = parseApproval(data, to, from); approvals.push(approval)
ParseApproval ==
  /\ pc = "parse"
  /\ signals' = [signals EXCEPT !.approvals = parseApproval(data, TxTo, TxFrom),
                                !.knownMethod = identifyMethod(data)]
  /\ pc' = "classify"
  /\ UNCHANGED <<textVars, snapVars, body, rpcLog, ETH_RPC_URL, chainId, data, value, ethCallResult, toIsEOA,
                 results, risk, riskBefore, response>>

\* unlimitedApproval = isUnlimitedApproval(approval.amount)
ClassifyAmount ==
  /\ pc = "classify"
  /\ signals.approvals # <<>>
  /\ signals' = [signals EXCEPT
                   !.unlimitedApproval = isUnlimitedApproval(signals.approvals[1].amount)]
  /\ pc' = "classified"
  /\ UNCHANGED <<textVars, snapVars, body, rpcLog, ETH_RPC_URL, chainId, data, value, ethCallResult, toIsEOA,
                 results, risk, riskBefore, response>>

NextSignals == ParseApproval \/ ClassifyAmount

SpecSignals == InitSignals /\ [][NextSignals]_vars

\* the 64 hex digits of the amount argument of the approve call
AmountWord == Slice(data, 74, 138)

\* the amount is at least 2^255: the highest of its 256 bits is set
AtLeastTwoTo255 == HexVal(AmountWord[1]) >= 8

IsMaxUint256 == \A i \in 1..64 : AmountWord[i] = "f"

\* C2: an approval amount of 0 .. 2^256-1 is unlimited exactly when it is at
\* least 2^255 or equal to 2^256-1, and so never when it is below 2^255.
C2_UnlimitedThreshold ==
  pc = "classified" =>
    /\ signals.unlimitedApproval <=> (AtLeastTwoTo255 \/ IsMaxUint256)
    /\ ~AtLeastTwoTo255 => ~signals.unlimitedApproval

\* the amount is exactly 2^255
C2_Witness ==
  /\ pc = "classified"
  /\ AmountWord = Word("8", "0", "0")
  /\ signals.approvals[1].amount =
       <<"5","7","8","9","6","0","4","4","6","1","8","6","5","8","0","9","7","7","1","1","7","8","5","4","9","2","5","0","4","3","4","3","9","5","3","9","2","6","6","3","4","9","9","2","3","3","2","8","2","0","2","8","2","0","1","9","7","2","8","7","9","2","0","0","3","9","5","6","5","6","4","8","1","9","9","6","8">>
  /\ signals.unlimitedApproval

-----------------------------------------------------------------------------
(* sanitizeLanguage on texts, and buildCompliantWarning on inputs whose      *)
(* free-text fields hold such texts                                          *)

SampleWords ==
  {<<"w","i","l","l">>, <<"W","i","l","l">>, <<"n","o","t">>, <<"g","u","a","r","a","n","t","e","e">>, <<"g","u","a","r","a","n","t","e","e","d">>, <<"g","u","a","r","a","n","t","e","e","s">>,
   <<"d","e","f","i","n","i","t","e","l","y">>, <<"s","c","a","m">>, <<"m","a","l","i","c","i","o","u","s">>, <<"d","r","a","i","n">>, <<"l","o","s","e">>, <<"y","o","u">>, <<"i","s">>}

SampleSeparators == {<<>>, <<" ">>, <<" "," ">>, <<"-">>, <<"\t">>}

SamplePhrases ==
  {<<>>, <<"y","o","u"," ","w","i","l","l"," ","l","o","s","e">>, <<"Y","o","u"," ","W","i","l","l"," ","L","o","s","e"," ","e","v","e","r","y","t","h","i","n","g">>, <<"f","u","n","d","s"," ","w","i","l","l"," ","b","e"," ","s","t","o","l","e","n">>,
   <<"t","h","e"," ","f","u","n","d","s"," ","w","i","l","l"," ","b","e"," ","s","t","o","l","e","n",".">>, <<"i","t"," ","w","i","l","l"," ","n","o","t"," ","f","a","i","l">>, <<"i","t"," ","w","i","l","l"," "," ","n","o","t"," ","f","a","i","l">>,
   <<"t","h","i","s"," ","i","s"," ","n","o","t"," ","a"," ","s","c","a","m","!">>, <<"e","x","e","c","u","t","i","o","n"," ","r","e","v","e","r","t","e","d",":"," ","i","n","s","u","f","f","i","c","i","e","n","t"," ","a","l","l","o","w","a","n","c","e">>,
   <<"s","c","a","m","m","e","r">>, <<"u","n","w","i","l","l","i","n","g">>, <<"w","i","l","l"," ","n","o","t","i","f","y">>, <<"y","o","u"," ","m","a","y"," ","l","o","s","e">>,
   <<"y","o","u"," ","w","i","l","l"," ","l","o","s","e",":"," ","f","u","n","d","s"," ","w","i","l","l"," ","b","e"," ","s","t","o","l","e","n",","," ","i","t"," ","w","i","l","l"," ","n","o","t"," ","s","t","o","p"," ","a","n","d"," ","w","i","l","l"," ","f","a","i","l">>}

SampleTexts ==
  SampleWords \cup SamplePhrases
    \cup {a \o s \o b : a \in SampleWords, s \in SampleSeparators, b \in SampleWords}

\* the texts put into the free-text fields of a WarningInput
FieldTexts == SampleWords \cup SamplePhrases

QuietSignals ==
  [unlimitedApproval |-> FALSE, approvals |-> <<>>, spenderIsContract |-> Null,
   knownMethod |-> Some(M_transfer), highValueNativeTransfer |-> FALSE,
   reverted |-> FALSE, revertReason |-> Null, isPermit |-> FALSE, isMulticall |-> FALSE]

WarningInput(verdict, confidence, sig, evidence) ==
  [verdict |-> verdict, confidence |-> confidence, signals |-> sig, evidence |-> evidence]

Evidence(tags, sources) == Some([tags |-> tags, sources |-> sources])

\* every combination of the flags the tags are derived from
FlagInputs ==
  [verdict : Verdict, confidence : {65},
   signals : [unlimitedApproval : BOOLEAN,
              approvals : {<<>>, <<[spender |-> AddrSpenderA, amount |-> AmountThousand]>>},
              spenderIsContract : {Null, Some(TRUE), Some(FALSE)},
              knownMethod : {Null, Some(M_approve)},
              highValueNativeTransfer : BOOLEAN,
              reverted : BOOLEAN,
              revertReason : {Null},
              isPermit : BOOLEAN,
              isMulticall : BOOLEAN],
   evidence : {Null}]

\* confidences on both sides of every threshold and outside 0..100; evidence
\* absent, empty, and naming a listed address or contract
ConfidenceInputs ==
  [verdict : Verdict, confidence : {-5, 45, 55, 65, 75, 85, 120},
   signals : {QuietSignals,
              [QuietSignals EXCEPT !.reverted = TRUE],
              [QuietSignals EXCEPT !.isPermit = TRUE],
              [QuietSignals EXCEPT !.knownMethod = Null],
              [QuietSignals EXCEPT
                 !.approvals = <<[spender |-> AddrSpenderA, amount |-> AmountThousand]>>]},
   evidence : {Null, Evidence(<<>>, <<>>),
               Evidence(<<KNOWN_BAD_ADDRESS>>, <<<<"c","h","a","i","n","a","b","u","s","e">>, <<"s","c","a","m","s","n","i","f","f","e","r">>, <<"e","t","h","e","r","s","c","a","n">>>>),
               Evidence(<<KNOWN_BAD_CONTRACT>>, <<>>)}]

\* a sample text as revert reason, method name, evidence source, spender or
\* amount
FreeTextInputs ==
  UNION {
    {WarningInput(DANGER, 85, [QuietSignals EXCEPT !.reverted = TRUE, !.revertReason = Some(t)],
                  Null),
     WarningInput(SAFE, 70, [QuietSignals EXCEPT !.knownMethod = Some(t)], Null),
     WarningInput(DANGER, 85, QuietSignals, Evidence(<<KNOWN_BAD_ADDRESS>>, <<t>>)),
     WarningInput(DANGER, 85, QuietSignals, Evidence(<<KNOWN_BAD_ADDRESS>>, <<<<"x">>, t>>)),
     WarningInput(WARNING, 50,
                  [QuietSignals EXCEPT !.approvals = <<[spender |-> t, amount |-> t]>>], Null),
     WarningInput(DANGER, 85,
                  [QuietSignals EXCEPT !.approvals = <<[spender |-> t, amount |-> t]>>,
                                       !.unlimitedApproval = TRUE], Null)} :
    t \in FieldTexts}

\* the signals of a WarningInput, from the simulation result and the
\* extracted signals
WarningSignals(ecr, sig) ==
  [unlimitedApproval |-> sig.unlimitedApproval, approvals |-> sig.approvals,
   spenderIsContract |-> sig.spenderIsContract, knownMethod |-> sig.knownMethod,
   highValueNativeTransfer |-> sig.highValueNativeTransfer,
   reverted |-> ~ecr.success, revertReason |-> ecr.revertReason,
   isPermit |-> sig.isPermit, isMulticall |-> sig.isMulticall]

\* the WarningInput of a successfully simulated transaction with calldata d
\* and value v, whose recipient is an account or not: the verdict and the
\* confidence are those of assessRisk, the signals those of extractSignals
\* (no node configured)
PipelineInput(d, v, eoa) ==
  LET ecr == Ok(Some(S_0x), RpcUrl)
      sig == [knownMethod |-> identifyMethod(d),
              approvals |-> parseApproval(d, TxTo, TxFrom),
              erc20Transfers |-> parseTransfer(d, TxTo, TxFrom),
              unlimitedApproval |-> FALSE,
              spenderIsContract |-> Null,
              isPermit |-> isPermitSelector(getSelector(d)),
              isMulticall |-> isMulticallSelector(getSelector(d)),
              highValueNativeTransfer |-> isHighValueNative(v)]
      assessed == assessRisk(ecr, sig, eoa, d, v)
  IN WarningInput(assessed.verdict, assessed.confidence, WarningSignals(ecr, sig), Null)

\* transactions without calldata
EmptyCalldataInputs ==
  {PipelineInput(DataEmpty, v, eoa) :
     v \in {Some(S_0x0), Some(Value005Eth), Some(Value1Eth)}, eoa \in BOOLEAN}

PipelineInputs ==
  EmptyCalldataInputs
    \cup {PipelineInput(d, v, eoa) :
            d \in {DataSelectorOnly, D_unknown, D_transfer, D_permit, D_multicall},
            v \in {Some(S_0x0), Some(Value005Eth)}, eoa \in BOOLEAN}

SampleWarningInputs == FlagInputs \cup ConfidenceInputs \cup FreeTextInputs \cup PipelineInputs

InitText ==
  /\ \/ pc = "sanitizeLanguage" /\ textIn \in SampleTexts /\ warningInput = NoWarningInput
     \/ pc = "buildCompliantWarning" /\ textIn = <<>> /\ warningInput \in SampleWarningInputs
  /\ textOut = Null
  /\ warning = Null
  /\ body = NoBody
  /\ rpcLog = NoRpcYet
  /\ ETH_RPC_URL = Null
  /\ chainId = S_eth
  /\ data = S_0x
  /\ value = Some(S_0x0)
  /\ ethCallResult = Ok(Null, S_none)
  /\ signals = NoSignals
  /\ toIsEOA = FALSE
  /\ results = <<>>
  /\ risk = NoRisk
  /\ riskBefore = Null
  /\ response = NoResponse
  /\ SnapIdle

pipelineVars ==
  <<body, rpcLog, ETH_RPC_URL, chainId, data, value, ethCallResult, signals, toIsEOA,
    results, risk, riskBefore, response, transaction, insight, cancelled>>

SanitizeLanguage ==
  /\ pc = "sanitizeLanguage"
  /\ textOut' = Some(sanitizeLanguage(textIn))
  /\ pc' = "sanitized"
  /\ UNCHANGED <<pipelineVars, textIn, warningInput, warning>>

BuildCompliantWarning ==
  /\ pc = "buildCompliantWarning"
  /\ warning' = Some(buildCompliantWarning(warningInput))
  /\ pc' = "built"
  /\ UNCHANGED <<pipelineVars, textIn, warningInput, textOut>>

NextText == SanitizeLanguage \/ BuildCompliantWarning

SpecText == InitText /\ [][NextText]_vars

\* the title, the summary, the detail lines and the recommendation of a message
MessageTexts(m) ==
  {m.title, m.summary, m.recommendation} \cup {m.details[i] : i \in 1..Len(m.details)}

\* C3: the forbidden-language predicate finds nothing in a text that
\* sanitizeLanguage returned, and nothing in the title, the summary, a detail
\* line or the recommendation of a message that buildCompliantWarning returned.
C3_SanitizedIsClean ==
  /\ pc = "sanitized" => ~containsForbiddenLanguage(Val(textOut))
  /\ pc = "built" => \A t \in MessageTexts(Val(warning)) : ~containsForbiddenLanguage(t)

-----------------------------------------------------------------------------
(* decodeRevertReason on the Error(string) payloads of ASCII strings *)

MaxReasonLength == 100

\* the characters of the bytes 0 .. 127
Ascii == AsciiControl \o AsciiPrintable \o <<"<DEL>">>

\* the string of n characters that starts at the character of byte k and
\* steps by k + 1 through the ASCII table
AsciiString(n, k) == [i \in 1..n |-> Ascii[((k + (i - 1) * (k + 1)) % 128) + 1]]

SampleReasonStrings ==
  {AsciiString(n, k) : n \in 0..MaxReasonLength, k \in {0, 6, 65}}

InitDecode ==
  /\ pc = "encode"
  /\ textIn \in SampleReasonStrings
  /\ textOut = Null
  /\ warningInput = NoWarningInput
  /\ warning = Null
  /\ body = NoBody
  /\ rpcLog = NoRpcYet
  /\ ETH_RPC_URL = Null
  /\ chainId = S_eth
  /\ data = S_0x
  /\ value = Some(S_0x0)
  /\ ethCallResult = Ok(Null, S_none)
  /\ signals = NoSignals
  /\ toIsEOA = FALSE
  /\ results = <<>>
  /\ risk = NoRisk
  /\ riskBefore = Null
  /\ response = NoResponse
  /\ SnapIdle

\* the node's return data for a revert with Error(textIn)
EncodeError ==
  /\ pc = "encode"
  /\ data' = ErrorPayload(textIn)
  /\ pc' = "decode"
  /\ UNCHANGED <<textVars, snapVars, body, rpcLog, ETH_RPC_URL, chainId, value, ethCallResult, signals,
                 toIsEOA, results, risk, riskBefore, response>>

\* const reason = decodeRevertReason(returnData)
DecodeRevertReason ==
  /\ pc = "decode"
  /\ textOut' = decodeRevertReason(data)
  /\ pc' = "decoded"
  /\ UNCHANGED <<pipelineVars, textIn, warningInput, warning>>

NextDecode == EncodeError \/ DecodeRevertReason

SpecDecode == InitDecode /\ [][NextDecode]_vars

\* C11: decoding the Error(string) payload built from an ASCII string of 0 to
\* 100 bytes returns that string, the empty string included.
C11_DecodeRoundTrip ==
  pc = "decoded" => textOut = Some(textIn)

-----------------------------------------------------------------------------
(* Properties of the simulation result *)

Simulated == pc \in {"step2", "step3", "step4", "step5"} \/ (pc = "done" /\ response.status = 200)

\* the node answered the eth_call with an error object
RpcErrored == rpcLog.ethCall.kind = "json" /\ ~IsNull(rpcLog.ethCall.error)

\* C12: a result of simulateEthCall with success false has a revert reason
\* that is not null, unless the node answered with an error object; so also
\* when the node's result begins with the Error(string) selector, whatever
\* length the payload declares.
C12_FailureHasReason ==
  (Simulated /\ ~ethCallResult.success /\ ~RpcErrored) => ~IsNull(ethCallResult.revertReason)

-----------------------------------------------------------------------------
(* Properties of buildCompliantWarning *)

Built == pc = "built"

\* the tags a template belongs to, highest priority first
TemplatePriority ==
  <<KNOWN_BAD_ADDRESS, KNOWN_BAD_CONTRACT, "UNLIMITED_APPROVAL", "PERMIT_SIGNATURE", "REVERT",
    "HIGH_VALUE_NATIVE_TRANSFER", "MULTICALL", "UNKNOWN_METHOD", "LIMITED_APPROVAL">>

\* the position in TemplatePriority of the first tag that is among tags; 0 if
\* none is
TopTag(tags) ==
  IF \E k \in 1..Len(TemplatePriority) : InSeq(TemplatePriority[k], tags)
  THEN CHOOSE k \in 1..Len(TemplatePriority) :
         /\ InSeq(TemplatePriority[k], tags)
         /\ \A j \in 1..(k - 1) : ~InSeq(TemplatePriority[j], tags)
  ELSE 0

\* the template of the k-th tag of TemplatePriority, filled in for input
TemplateOfTag(k, input) ==
  CASE k \in {1, 2} -> buildKnownBadAddressMessage(input)
    [] k = 3 -> buildUnlimitedApprovalMessage(input)
    [] k = 4 -> buildPermitMessage(input)
    [] k = 5 -> buildRevertMessage(input)
    [] k = 6 -> buildHighValueTransferMessage(input)
    [] k = 7 -> buildMulticallMessage(input)
    [] k = 8 -> buildUnknownMethodMessage(input)
    [] k = 9 -> buildLimitedApprovalMessage(input)

SameTemplate(m, t) ==
  /\ m.title = t.title
  /\ m.summary = t.summary
  /\ m.recommendation = t.recommendation
  /\ m.severity = t.severity

\* C13: when a tag is derived from the input, the message is that of the
\* template of the derived tag of highest priority -- known-bad address or
\* contract, unlimited approval, permit, revert, high-value transfer,
\* multicall, unknown method, limited approval -- whatever tags of lower
\* priority are derived with it.
C13_TemplateByPriority ==
  (Built /\ TopTag(detectTags(warningInput)) # 0) =>
    SameTemplate(Val(warning),
                 TemplateOfTag(TopTag(detectTags(warningInput)), warningInput))

\* a permit that reverted inside a multicall of high value gets the permit
\* template
C13_Witness ==
  /\ Built
  /\ warningInput.signals.isPermit
  /\ warningInput.signals.reverted
  /\ warningInput.signals.isMulticall
  /\ warningInput.signals.highValueNativeTransfer
  /\ ~warningInput.signals.unlimitedApproval
  /\ Val(warning).title = <<"S","i","g","n","a","t","u","r","e","-","b","a","s","e","d"," ","a","p","p","r","o","v","a","l">>

\* no finding other than, possibly, an unknown method
NoOtherFinding(input) ==
  /\ ~EvidenceHas(input, KNOWN_BAD_ADDRESS)
  /\ ~EvidenceHas(input, KNOWN_BAD_CONTRACT)
  /\ ~input.signals.unlimitedApproval
  /\ input.signals.approvals = <<>>
  /\ ~input.signals.isPermit
  /\ ~input.signals.reverted
  /\ ~input.signals.highValueNativeTransfer
  /\ ~input.signals.isMulticall

\* C14: for a transaction without calldata (the unknown-method rule does not
\* fire) and without another finding, the message is the direct-transfer
\* template if the verdict is WARNING and the no-elevated-risk template, of
\* severity INFO, otherwise; it is never the unrecognized-call template.
C14_FallbackTemplates ==
  (Built /\ warningInput \in EmptyCalldataInputs /\ NoOtherFinding(warningInput)) =>
    /\ Val(warning).title # <<"U","n","r","e","c","o","g","n","i","z","e","d"," ","c","o","n","t","r","a","c","t"," ","c","a","l","l">>
    /\ IF warningInput.verdict = WARNING
       THEN Val(warning).title = <<"D","i","r","e","c","t"," ","t","r","a","n","s","f","e","r"," ","d","e","t","e","c","t","e","d">>
       ELSE Val(warning).title = <<"N","o"," ","e","l","e","v","a","t","e","d"," ","r","i","s","k"," ","d","e","t","e","c","t","e","d">> /\ Val(warning).severity = INFO

\* C15: a built message has a title of at most 40 characters, a summary of at
\* most 200, at most 4 detail lines and a confidence of 0 .. 100, also for an
\* input whose confidence is outside 0 .. 100.
C15_MessageBounds ==
  Built =>
    /\ Len(Val(warning).title) <= 40
    /\ Len(Val(warning).summary) <= 200
    /\ Len(Val(warning).details) <= 4
    /\ Val(warning).confidence >= 0
    /\ Val(warning).confidence <= 100

C15_Witness ==
  /\ Built
  /\ warningInput.confidence = 120
  /\ Val(warning).confidence = 100
  /\ Len(Val(warning).details) = 3

-----------------------------------------------------------------------------
(* The response and the snap *)

\* the handler answered 200 with ok true
Succeeded == pc \in {"done", "returned"} /\ response # NoResponse /\ response.status = 200

\* onTransaction returned for a transaction it sent to the backend
Returned == pc = "returned" /\ response # NoResponse

\* C16: every successful response carries a message field, so the snap
\* shows the 'simulation unavailable' fallback only when the backend failed.
C16_ResponseCarriesMessage ==
  /\ Succeeded => Truthy(Field(response, "message"))
  /\ (Returned /\ Val(insight) = FallbackInsight) => ~response.ok

\* C19: a chain without a registered endpoint gets the 'No RPC configured'
\* failure with no call to a node, and no node is asked about a transaction
\* the wallet submitted for a chain other than Ethereum mainnet.
NoEndpointFailure ==
  (Simulated /\ IsNull(getRpcUrl(chainId))) =>
     /\ ethCallResult = Failed(Null, Some(S_NoRpcConfigured \o chainId), S_none)
     /\ rpcLog = NoRpcYet
C19_NoForeignEndpoint ==
  /\ NoEndpointFailure
  /\ (transaction # NoTransaction /\ transaction.chainId # S_eip155_1) => rpcLog = NoRpcYet
-----------------------------------------------------------------------------
(* Properties of sanitizeLanguage *)

Sanitized == pc = "sanitized"

\* C17: sanitizeLanguage is idempotent: sanitizing its result changes nothing.
C17_SanitizeIdempotent ==
  Sanitized => sanitizeLanguage(Val(textOut)) = Val(textOut)

\* the sanitizer rewrote a text with several findings
C17_Witness ==
  /\ Sanitized
  /\ Len(Val(textOut)) # Len(textIn)
  /\ \E i, j \in 1..Len(textIn) : i # j /\ WordAt(textIn, i, <<"w","i","l","l">>) /\ WordAt(textIn, j, <<"w","i","l","l">>)
  /\ sanitizeLanguage(Val(textOut)) = Val(textOut)

\* where the phrase lit stands in s as whole words, letter case ignored
Occurrences(s, lit) == {i \in 1..Len(s) : WordAt(s, i, lit)}
\* where "will" is followed by white space and the word "not"
WillNots(s) == {i \in Occurrences(s, <<"w","i","l","l">>) : FollowedByNot(s, i + 3)}
\* where "will" stands outside the two idioms and is not followed by "not"
OtherWills(s) ==
  {i \in Occurrences(s, <<"w","i","l","l">>) \ WillNots(s) :
     /\ ~(i > 4 /\ WordAt(s, i - 4, <<"y","o","u"," ","w","i","l","l"," ","l","o","s","e">>))
     /\ ~(i > 6 /\ WordAt(s, i - 6, <<"f","u","n","d","s"," ","w","i","l","l"," ","b","e"," ","s","t","o","l","e","n">>))}

\* C18: every "you will lose" becomes "you could lose" and every "funds will
\* be stolen" becomes "funds could be moved", never "you may lose" or "funds
\* may be stolen"; every other "will" becomes "may"; "will not" stays.
C18_IdiomsFirst ==
  Sanitized =>
    LET t == textIn
        u == Val(textOut)
        N(s, lit) == Cardinality(Occurrences(s, lit))
    IN /\ N(u, <<"y","o","u"," ","w","i","l","l"," ","l","o","s","e">>) = 0
       /\ N(u, <<"f","u","n","d","s"," ","w","i","l","l"," ","b","e"," ","s","t","o","l","e","n">>) = 0
       /\ N(u, <<"y","o","u"," ","c","o","u","l","d"," ","l","o","s","e">>) = N(t, <<"y","o","u"," ","c","o","u","l","d"," ","l","o","s","e">>) + N(t, <<"y","o","u"," ","w","i","l","l"," ","l","o","s","e">>)
       /\ N(u, <<"f","u","n","d","s"," ","c","o","u","l","d"," ","b","e"," ","m","o","v","e","d">>)
            = N(t, <<"f","u","n","d","s"," ","c","o","u","l","d"," ","b","e"," ","m","o","v","e","d">>) + N(t, <<"f","u","n","d","s"," ","w","i","l","l"," ","b","e"," ","s","t","o","l","e","n">>)
       /\ N(u, <<"y","o","u"," ","m","a","y"," ","l","o","s","e">>) = N(t, <<"y","o","u"," ","m","a","y"," ","l","o","s","e">>)
       /\ N(u, <<"f","u","n","d","s"," ","m","a","y"," ","b","e"," ","s","t","o","l","e","n">>) = N(t, <<"f","u","n","d","s"," ","m","a","y"," ","b","e"," ","s","t","o","l","e","n">>)
       /\ N(u, <<"m","a","y">>)
            = N(t, <<"m","a","y">>) + Cardinality(OtherWills(t)) + N(t, <<"d","e","f","i","n","i","t","e","l","y">>)
       /\ Occurrences(u, <<"w","i","l","l">>) = WillNots(u)
       /\ Cardinality(WillNots(u)) = Cardinality(WillNots(t))

\* a text with both idioms, a "will not" and another "will" was sanitized
C18_Witness ==
  /\ Sanitized
  /\ Occurrences(textIn, <<"y","o","u"," ","w","i","l","l"," ","l","o","s","e">>) # {}
  /\ Occurrences(textIn, <<"f","u","n","d","s"," ","w","i","l","l"," ","b","e"," ","s","t","o","l","e","n">>) # {}
  /\ WillNots(textIn) # {}
  /\ OtherWills(textIn) # {}
  /\ Occurrences(Val(textOut), <<"y","o","u"," ","c","o","u","l","d"," ","l","o","s","e">>) # {}
  /\ Occurrences(Val(textOut), <<"f","u","n","d","s"," ","c","o","u","l","d"," ","b","e"," ","m","o","v","e","d">>) # {}
  /\ Occurrences(Val(textOut), <<"m","a","y">>) # {}
-----------------------------------------------------------------------------
(* Properties of getCode and its callers *)

\* the handler went past its step 3
Classified ==
  \/ pc \in {"step4", "step5"}
  \/ (pc \in {"done", "returned"} /\ response # NoResponse /\ response.status = 200)

\* the eth_getCode call was made and threw: fetch failed or was aborted
CallThrew(o) == o.kind = "throw"
\* the node answered the eth_getCode call with an error object
NodeErrored(o) == o.kind = "json" /\ ~IsNull(o.error)
\* the node answered the eth_getCode call with the empty code
EmptyCode(o) == o.kind = "json" /\ IsNull(o.error) /\ o.result = Some(S_0x)

\* C20 as stated: getCode returns null only when the transport fails, and
\* the empty code is a result other than null.
C20_NullOnlyOnTransportFailure ==
  Classified =>
    LET o == rpcLog.recipientCode
        code == getCode(chainId, TxTo, o)
    IN /\ code = CodeNull => CallThrew(o)
       /\ EmptyCode(o) => code = CodeString(S_0x)

\* C20 as amended: getCode returns null when no endpoint is registered for
\* the chain, when the transport fails and when the node answers with an
\* error object, and in no other case; the empty code is the string '0x',
\* which the callers tell from null: the recipient is an account and the
\* spender is not a contract for '0x', the recipient is not taken for an
\* account and the spender's kind is null for null.
C20_NullMeansUndetermined ==
  Classified =>
    LET o == rpcLog.recipientCode
        code == getCode(chainId, TxTo, o)
        s == rpcLog.spenderCode
        approved == ~IsNull(parseApproval(data, TxTo, TxFrom))
    IN /\ code = CodeNull
            <=> (IsNull(getRpcUrl(chainId)) \/ CallThrew(o) \/ NodeErrored(o))
       /\ EmptyCode(o) => (code = CodeString(S_0x) /\ toIsEOA)
       /\ code = CodeNull => ~toIsEOA
       /\ (approved /\ EmptyCode(s)) => signals.spenderIsContract = Some(FALSE)
       /\ (approved /\ (IsNull(getRpcUrl(chainId)) \/ CallThrew(s) \/ NodeErrored(s)))
            => signals.spenderIsContract = Null

\* the node refused the spender's eth_getCode and answered the recipient's
\* with the empty code
C20_Witness ==
  /\ Classified
  /\ ~IsNull(parseApproval(data, TxTo, TxFrom))
  /\ NodeErrored(rpcLog.spenderCode)
  /\ signals.spenderIsContract = Null
  /\ EmptyCode(rpcLog.recipientCode)
  /\ toIsEOA
-----------------------------------------------------------------------------
(* Cancellation *)

\* C21: once the request is cancelled, the outstanding network call is
\* aborted and nothing of the request goes on: no node's reply is taken, no
\* later step of the pipeline runs and no response is sent.
C21_CancelDiscards ==
  [][cancelled =>
       /\ rpcLog' = rpcLog
       /\ ethCallResult' = ethCallResult
       /\ signals' = signals
       /\ toIsEOA' = toIsEOA
       /\ risk' = risk
       /\ response' = response]_vars
-----------------------------------------------------------------------------
(* The recipient's probe *)

\* the eth_getCode call for the recipient was made and gave no code: it
\* threw, or the node answered with an error object
RecipientProbeFailed ==
  /\ ~IsNull(getRpcUrl(chainId))
  /\ (CallThrew(rpcLog.recipientCode) \/ NodeErrored(rpcLog.recipientCode))

\* C22: when the recipient's probe fails the assessment is not SAFE with
\* confidence 70, and its verdict is not below the verdict a successful
\* probe gives the same transaction.
C22_ProbeFailureNotSafe ==
  (pc = "step5" /\ RecipientProbeFailed) =>
     /\ ~(risk.verdict = SAFE /\ risk.confidence = 70)
     /\ \A o \in {RpcResult(S_0x), RpcResult(Code_contract)} :
          Rank(assessRisk(ethCallResult, signals,
                          RecipientIsEOA(getCode(chainId, TxTo, o)), data, value).verdict)
            <= Rank(risk.verdict)
-----------------------------------------------------------------------------
(* extractSignals and assessRisk on calldata and values of every shape *)

RecipientHex == <<"A","b","C","d","E","f","0","1","2","3","4","5","6","7","8","9","a","B","c","D","e","F","0","1","2","3","4","5","6","7","8","9","a","b","c","d","e","f","0","2">>
\* an address word whose twelve bytes left of the address are not zero
PaddedAddrWord(hex40) == [i \in 1..24 |-> "f"] \o hex40
SampleAddrWords == {AddrWord(SpenderHex), PaddedAddrWord(RecipientHex)}

SampleAmountWords ==
  {Word(top, mid, low) : top \in TopDigits, mid \in MidDigits, low \in LowDigits}
    \cup {Zeros(49) \o <<"d","e","0","b","6","b","3","a","7","6","4","0","0","0","0">>,
          <<"0","1","2","3","4","5","6","7","8","9","a","b","c","d","e","f","F","E","D","C","B","A","9","8","7","6","5","4","3","2","1","0","0","f","e","d","c","b","a","9","8","7","6","5","4","3","2","1","1","0","3","2","5","4","7","6","9","8","b","a","d","c","f","e">>}

\* well-formed approve, transfer and transferFrom calls
SampleTokenCalls ==
  {Sel_approve \o a \o w : a \in SampleAddrWords, w \in SampleAmountWords}
    \cup {Sel_transfer \o a \o w : a \in SampleAddrWords, w \in SampleAmountWords}
    \cup {Sel_transferFrom \o a[1] \o a[2] \o w :
            a \in {<<AddrWord(SpenderHex), PaddedAddrWord(RecipientHex)>>,
                   <<PaddedAddrWord(RecipientHex), AddrWord(SpenderHex)>>},
            w \in SampleAmountWords}

\* calls longer than any signature asks for, to be cut at every length
LongCalls ==
  {sel \o AddrWord(SpenderHex) \o PaddedAddrWord(RecipientHex) \o Word("7", "5", "e")
       \o <<"a","b","c","d","e","f">> :
     sel \in {Sel_approve, <<"0","x","0","9","5","E","A","7","B","3">>, Sel_transfer, Sel_transferFrom, Sel_permit,
              Sel_permit2Approve, Sel_multicall, Sel_execute, Sel_permit2TransferFrom,
              <<"0","x","1","2","3","4","5","6","7","8">>}}
SamplePrefixes == {SubSeq(c, 1, n) : c \in LongCalls, n \in 0..208}

\* a call with two argument words for every selector of the registry
RegistryCalls ==
  {KNOWN_SELECTORS[i][1] \o AddrWord(SpenderHex) \o Word("7", "5", "e") :
     i \in 1..Len(KNOWN_SELECTORS)}

V_one == <<"0","x","1">>
V_belowThreshold == <<"0","x","3","7","8","2","d","a","c","e","9","d","8","f","f","f","f">>
V_threshold == <<"0","x","3","7","8","2","d","a","c","e","9","d","9","0","0","0","0">>
V_thresholdPadded == <<"0","x","0","0","0","3","7","8","2","D","A","C","E","9","D","9","0","0","0","0">>
V_aboveThreshold == <<"0","x","3","7","8","2","d","a","c","e","9","d","9","0","0","0","1">>
V_max == S_0x \o [i \in 1..64 |-> "f"]
SampleNativeValues ==
  {Null, Some(S_0x), Some(S_0x0), Some(S_0x00), Some(S_0x000), Some(V_one),
   Some(Value005Eth), Some(V_belowThreshold), Some(V_threshold), Some(V_thresholdPadded),
   Some(V_aboveThreshold), Some(Value1Eth), Some(V_max)}

InitExtract ==
  /\ pc = "extract"
  /\ \/ data \in SampleTokenCalls /\ value = Some(S_0x0) /\ toIsEOA = FALSE
     \/ data \in SamplePrefixes /\ value \in {Some(S_0x0), Some(Value1Eth)} /\ toIsEOA = FALSE
     \/ data \in RegistryCalls /\ value = Some(S_0x0) /\ toIsEOA = FALSE
     \/ /\ data \in {DataEmpty, DataSelectorOnly, DataSelectorPlus, D_unknown, D_transfer}
        /\ value \in SampleNativeValues
        /\ toIsEOA \in BOOLEAN
  /\ body = NoBody
  /\ rpcLog = NoRpcYet
  /\ ETH_RPC_URL = Some(RpcUrl)
  /\ chainId = S_eth
  /\ ethCallResult = Ok(Some(S_0x), RpcUrl)
  /\ signals = NoSignals
  /\ results = <<>>
  /\ risk = NoRisk
  /\ riskBefore = Null
  /\ response = NoResponse
  /\ SnapIdle
  /\ TextIdle

\* const signals = await extractSignals(chainId, from, to, data, value)
ExtractSignalsOf ==
  /\ pc = "extract"
  /\ \E o \in (IF IsNull(parseApproval(data, TxTo, TxFrom)) THEN {NoRpc}
               ELSE {RpcResult(Code_contract), RpcResult(S_0x), Throws(R_Aborted)}) :
       /\ signals' = extractSignals(chainId, TxFrom, TxTo, data, value, o)
       /\ rpcLog' = [rpcLog EXCEPT !.spenderCode = o]
  /\ pc' = "extracted"
  /\ UNCHANGED <<textVars, snapVars, body, ETH_RPC_URL, chainId, data, value, ethCallResult,
                 toIsEOA, results, risk, riskBefore, response>>

\* const risk = assessRisk(ethCallResult, signals, toIsEOA, data, value)
AssessExtracted ==
  /\ pc = "extracted"
  /\ results' = CollectResults(ethCallResult, signals, toIsEOA, data, value)
  /\ risk' = assessRisk(ethCallResult, signals, toIsEOA, data, value)
  /\ pc' = "assessed"
  /\ UNCHANGED <<textVars, snapVars, body, rpcLog, ETH_RPC_URL, chainId, data, value,
                 ethCallResult, signals, toIsEOA, riskBefore, response>>

NextExtract == ExtractSignalsOf \/ AssessExtracted

SpecExtract == InitExtract /\ [][NextExtract]_vars

Extracted == pc \in {"extracted", "assessed"}
AssessedExtract == pc = "assessed"
\* the results of the assessment that come from rule k
FindingsOf(k) == {i \in 1..Len(results) : results[i].reason.rule = k}
\* the calldata holds a selector, and the registry does not list it
UnlistedSelector ==
  /\ Len(data) >= 10
  /\ \A i \in 1..Len(KNOWN_SELECTORS) : KNOWN_SELECTORS[i][1] # ToLowerCase(SubSeq(data, 1, 10))

\* C23: calldata with a selector the registry does not list, sent to a
\* contract, gets the unknown-method finding (WARNING, 40), also when the
\* calldata is the selector alone; it is the verdict when nothing else fires.
C23_UnknownMethodRule ==
  (AssessedExtract /\ UnlistedSelector /\ ~toIsEOA) =>
     /\ \E i \in FindingsOf("unknownMethod") :
          results[i].verdict = WARNING /\ results[i].confidence = 40
     /\ (FindingsOf("unknownMethod") = 1..Len(results))
          => (risk.verdict = WARNING /\ risk.confidence = 40)
\* the native value, read as an unsigned integer, is greater than 0
ValuePositive ==
  /\ Truthy(value)
  /\ \E i \in 3..Len(Val(value)) : Val(value)[i] # "0"

\* C24: the direct-account-transfer finding is reported exactly when the
\* recipient is an account and the value is greater than 0, so for no
\* encoding of zero.
C24_DirectTransferRule ==
  AssessedExtract => (FindingsOf("directEOATransfer") # {} <=> (toIsEOA /\ ValuePositive))
\* the calldata begins with the selector of approve(address,uint256)
ApproveSelector ==
  Len(data) >= 10 /\ ToLowerCase(SubSeq(data, 1, 10)) = <<"0","x","0","9","5","e","a","7","b","3">>
\* the number of whole bytes of calldata after the 4-byte selector
BytesBeyondSelector == IF Len(data) >= 10 THEN (Len(data) - 10) \div 2 ELSE 0

\* C25 as stated: an approval signal is produced exactly when the selector is
\* that of approve and the calldata holds at least 68 bytes after it.
C25_ApprovalNeeds68Beyond ==
  Extracted => (signals.approvals # <<>> <=> (ApproveSelector /\ BytesBeyondSelector >= 68))

\* C25 as amended: an approval signal is produced exactly when the selector
\* is that of approve and the calldata holds at least 64 bytes after it (68
\* bytes with the selector: the two argument words).
C25_ApprovalNeeds64Beyond ==
  Extracted => (signals.approvals # <<>> <=> (ApproveSelector /\ BytesBeyondSelector >= 64))

\* an approve call of exactly 68 bytes was decoded
C25_Witness ==
  /\ Extracted
  /\ ApproveSelector
  /\ BytesBeyondSelector = 64
  /\ signals.approvals # <<>>
\* the k-th 32-byte argument word of the calldata, as 64 hex digits
ArgWord(k) == SubSeq(data, 11 + 64 * (k - 1), 10 + 64 * k)
\* the address in an argument word: its last 20 bytes, in lower case
AddressIn(w) == S_0x \o ToLowerCase(SubSeq(w, 25, 64))

\* eighteen primes whose product is above 10^78 and above 2^256: two numbers
\* below it are equal when they leave the same remainders
Moduli ==
  {32749, 32719, 32717, 32713, 32707, 32693, 32687, 32653, 32647, 32633, 32621, 32611,
   32609, 32603, 32587, 32579, 32573, 32569}
\* base^k modulo m
RECURSIVE PowMod(_, _, _)
PowMod(base, k, m) ==
  IF k = 0 THEN 1
  ELSE LET h == PowMod(base, k \div 2, m)
       IN IF k % 2 = 0 THEN (h * h) % m ELSE (((h * h) % m) * base) % m
\* the number written by the digits lo..hi, modulo m
RECURSIVE DigitsMod(_, _, _, _, _)
DigitsMod(digits, base, m, lo, hi) ==
  IF lo > hi THEN 0
  ELSE IF lo = hi THEN digits[lo] % m
  ELSE LET mid == (lo + hi) \div 2
       IN (DigitsMod(digits, base, m, lo, mid) * PowMod(base, hi - mid, m)
             + DigitsMod(digits, base, m, mid + 1, hi)) % m
\* the decimal string dec denotes the unsigned integer of the hex word w
DenotesWord(dec, w) ==
  /\ Len(dec) >= 1 /\ Len(dec) <= 78
  /\ \A i \in 1..Len(dec) : IsDecDigit(dec[i])
  /\ (Len(dec) > 1 => dec[1] # "0")
  /\ \A m \in Moduli :
       DigitsMod([i \in 1..Len(dec) |-> DecVal(dec[i])], 10, m, 1, Len(dec))
         = DigitsMod([i \in 1..Len(w) |-> HexVal(w[i])], 16, m, 1, Len(w))

WellFormedCall == data \in SampleTokenCalls

\* C26: for well-formed approve, transfer and transferFrom calldata each
\* decoded address is the last 20 bytes of its argument word and the decimal
\* amount denotes the whole 32-byte amount word: the second argument for
\* approve and transfer, the third for transferFrom.
C26_DecodedArguments ==
  (Extracted /\ WellFormedCall) =>
    LET sel == SubSeq(data, 1, 10)
    IN /\ sel = Sel_approve =>
            /\ signals.approvals # <<>>
            /\ signals.approvals[1].spender = AddressIn(ArgWord(1))
            /\ DenotesWord(signals.approvals[1].amount, ArgWord(2))
       /\ sel = Sel_transfer =>
            /\ signals.erc20Transfers # <<>>
            /\ signals.erc20Transfers[1].to = AddressIn(ArgWord(1))
            /\ DenotesWord(signals.erc20Transfers[1].amount, ArgWord(2))
       /\ sel = Sel_transferFrom =>
            /\ signals.erc20Transfers # <<>>
            /\ signals.erc20Transfers[1].from = AddressIn(ArgWord(1))
            /\ signals.erc20Transfers[1].to = AddressIn(ArgWord(2))
            /\ DenotesWord(signals.erc20Transfers[1].amount, ArgWord(3))

\* a transferFrom of 2^256-1 between two addresses, one of them in a word
\* with its upper twelve bytes set, was decoded
C26_Witness ==
  /\ Extracted
  /\ SubSeq(data, 1, 10) = Sel_transferFrom
  /\ ArgWord(1) = PaddedAddrWord(RecipientHex)
  /\ ArgWord(3) = Word("f", "f", "f")
  /\ signals.erc20Transfers # <<>>
  /\ signals.erc20Transfers[1].amount
       = <<"1","1","5","7","9","2","0","8","9","2","3","7","3","1","6","1","9","5","4","2","3","5","7","0","9","8","5","0","0","8","6","8","7","9","0","7","8","5","3","2","6","9","9","8","4","6","6","5","6","4","0","5","6","4","0","3","9","4","5","7","5","8","4","0","0","7","9","1","3","1","2","9","6","3","9","9","3","5">>
\* the selector of the calldata in lower case, <<>> if it holds none
SelectorOfData == IF Len(data) >= 10 THEN Some(ToLowerCase(SubSeq(data, 1, 10))) ELSE Null
\* the registry's signature for the selector, <<>> if there is none
RegistryEntry ==
  IF IsNull(SelectorOfData) THEN Null
  ELSE LET hits == {i \in 1..Len(KNOWN_SELECTORS) : KNOWN_SELECTORS[i][1] = Val(SelectorOfData)}
       IN IF hits = {} THEN Null ELSE Some(KNOWN_SELECTORS[CHOOSE i \in hits : TRUE][2])
PermitSelectors ==
  {<<"0","x","d","5","0","5","a","c","c","f">>, <<"0","x","2","b","6","7","b","5","7","0">>, <<"0","x","2","a","2","d","8","0","d","1">>, <<"0","x","3","0","f","2","8","b","7","a">>, <<"0","x","8","7","5","1","7","c","4","5">>}
MulticallSelectors == {<<"0","x","a","c","9","6","5","0","d","8">>, <<"0","x","5","a","e","4","0","1","d","c">>, <<"0","x","1","f","0","4","6","4","d","1">>, <<"0","x","3","5","9","3","5","6","4","c">>}
\* the length in characters a decode of the calldata's selector asks for
RequiredLength ==
  IF SelectorOfData \in {Some(Sel_approve), Some(Sel_transfer)} THEN 138
  ELSE IF SelectorOfData = Some(Sel_transferFrom) THEN 202
  ELSE 0
\* the value in wei is above a quarter of 10^18: the sample values that are
ValueAboveThreshold == value \in {Some(V_aboveThreshold), Some(Value1Eth), Some(V_max)}
\* the value in wei is a quarter of 10^18
ValueIsThreshold == value \in {Some(V_threshold), Some(V_thresholdPadded)}

\* C27: for calldata of every length extractSignals returns: a decode whose
\* length is not met gives no signal, and knownMethod, the permit and
\* multicall flags and the high-value flag are what the selector and the
\* value say.
C27_ShortCalldata ==
  Extracted =>
    /\ ~extractSignalsThrows(data)
    /\ Len(data) < RequiredLength
         => (signals.approvals = <<>> /\ signals.erc20Transfers = <<>>)
    /\ Len(data) < 10 => (signals.approvals = <<>> /\ signals.erc20Transfers = <<>>)
    /\ signals.knownMethod = RegistryEntry
    /\ signals.isPermit <=> (~IsNull(SelectorOfData) /\ Val(SelectorOfData) \in PermitSelectors)
    /\ signals.isMulticall
         <=> (~IsNull(SelectorOfData) /\ Val(SelectorOfData) \in MulticallSelectors)
    /\ ValueAboveThreshold => signals.highValueNativeTransfer
    /\ (~ValueAboveThreshold /\ ~ValueIsThreshold) => ~signals.highValueNativeTransfer

\* a transferFrom call one character short of its three arguments, sent with
\* 1 ETH: no transfer signal, the method known, the value flagged
C27_Witness ==
  /\ Extracted
  /\ SelectorOfData = Some(Sel_transferFrom)
  /\ Len(data) = 201
  /\ signals.erc20Transfers = <<>>
  /\ signals.knownMethod = Some(<<"t","r","a","n","s","f","e","r","F","r","o","m","(","a","d","d","r","e","s","s",",","a","d","d","r","e","s","s",",","u","i","n","t","2","5","6",")">>)
  /\ signals.highValueNativeTransfer
\* C28: the high-value finding is reported only when the value in wei is
\* strictly greater than 0.25 * 10^18, exactly for values up to 2^256-1, and
\* never for an absent or zero value.
C28_HighValueStrict ==
  AssessedExtract =>
    /\ FindingsOf("highValueTransfer") # {} => ValueAboveThreshold
    /\ ValueAboveThreshold => FindingsOf("highValueTransfer") # {}
    /\ ~ValuePositive => FindingsOf("highValueTransfer") = {}
\* C29: a message built for the verdict DANGER has the severity HIGH, whichever
\* template is selected, the revert template included.
C29_DangerIsHigh ==
  (Built /\ warningInput.verdict = DANGER) => Val(warning).severity = HIGH
\* C30: in every result of extractSignals at most one of: approvals non-empty,
\* transfers non-empty, isPermit, isMulticall; each of them implies that
\* knownMethod is not null; unlimitedApproval implies approvals non-empty; and
\* spenderIsContract is known only when approvals is non-empty.
C30_SignalInvariants ==
  Extracted =>
    LET kinds == <<signals.approvals # <<>>, signals.erc20Transfers # <<>>,
                   signals.isPermit, signals.isMulticall>>
    IN /\ Cardinality({k \in 1..4 : kinds[k]}) <= 1
       /\ (\E k \in 1..4 : kinds[k]) => ~IsNull(signals.knownMethod)
       /\ signals.unlimitedApproval => signals.approvals # <<>>
       /\ ~IsNull(signals.spenderIsContract) => signals.approvals # <<>>

\* an unlimited approval whose spender was classified
C30_Witness ==
  /\ Extracted
  /\ signals.approvals # <<>>
  /\ signals.unlimitedApproval
  /\ signals.spenderIsContract = Some(TRUE)
  /\ ~signals.isPermit /\ ~signals.isMulticall /\ signals.erc20Transfers = <<>>
====
